---- MODULE Spec2Model ----
(***************************************************************************)
(* Model of the deal-analysis handler of src/api/v1/analyze.ts (the later  *)
(* of the two handler versions the file holds, lines 1067-2283), with the  *)
(* comp ranking, the robust statistics and the deal classification it      *)
(* calls, and of the two earlier handler versions (analyze.ts lines        *)
(* 1-1066 and src/unnamed/part_000), which some properties also cover.     *)
(*                                                                         *)
(* Texts are modelled after normalize(): a text is the sequence of the     *)
(* words of the normalized string (lower case, no accents, punctuation     *)
(* collapsed), so String.includes becomes a search for a run of words and  *)
(* a \b...\b regular expression a search for whole words.                  *)
(***************************************************************************)
EXTENDS Integers, Sequences, FiniteSets, TLC

----------------------------------------------------------------------------
(* Sequence helpers *)

Range(s) == {s[i] : i \in DOMAIN s}

RECURSIVE SeqFilterOut(_, _)
(* s without the elements that are in the set drop *)
SeqFilterOut(s, drop) ==
  IF s = <<>> THEN <<>>
  ELSE IF Head(s) \in drop THEN SeqFilterOut(Tail(s), drop)
       ELSE <<Head(s)>> \o SeqFilterOut(Tail(s), drop)

RECURSIVE Dedup(_)
(* s with every later duplicate removed, first occurrences kept in order *)
Dedup(s) ==
  IF s = <<>> THEN <<>>
  ELSE LET r == Dedup(SubSeq(s, 1, Len(s) - 1))
           x == s[Len(s)]
       IN IF x \in Range(r) THEN r ELSE Append(r, x)

(* all of s *)
TakeAll(s, n) == s

Take(s, n) == SubSeq(s, 1, IF Len(s) < n THEN Len(s) ELSE n)

RECURSIVE SumSeq(_)
SumSeq(s) == IF s = <<>> THEN 0 ELSE Head(s) + SumSeq(Tail(s))

Min2(a, b) == IF a <= b THEN a ELSE b
Max2(a, b) == IF a >= b THEN a ELSE b

----------------------------------------------------------------------------
(* Text after normalize(): words, and substring search on them *)

(* The pairs <<w, s>> of model words where s is a proper substring of the  *)
(* single word w, so that "straps".includes("strap") is kept.              *)
WordContains ==
  { <<"straps", "strap">>, <<"lifestyle", "style">>, <<"boxy", "box">>,
    <<"unused", "used">>, <<"newish", "new">> }

WordHas(w, s) == w = s \/ <<w, s>> \in WordContains

(* t.includes(p) for a normalized text t and a normalized phrase p *)
Includes(t, p) ==
  IF Len(p) = 0 THEN TRUE
  ELSE IF Len(p) = 1 THEN \E i \in DOMAIN t : WordHas(t[i], p[1])
  ELSE \E i \in 1..(Len(t) - Len(p) + 1) :
         \A j \in 1..Len(p) : t[i + j - 1] = p[j]

(* new RegExp("\\b" + w + "\\b").test(t): w occurs as a whole word *)
HasWord(t, w) == \E i \in DOMAIN t : t[i] = w

----------------------------------------------------------------------------
(* Facts about the words of the model's vocabulary that the code reads     *)
(* from the characters of a token.                                         *)

Null == "null"

(* /^\d+$/.test(tok) *)
NumericWords ==
  { "15", "18", "20", "22", "24", "25", "26", "27", "28", "30", "32", "33",
    "34", "35", "36", "38", "40", "41", "45", "2", "5", "7", "55", "255",
    "100", "2019" }

(* tok.length < 3 *)
ShortWords == { "mm", "pm", "gm", "lv", "le", "a", "w", "2", "5", "7", "55",
                "15", "18", "20", "22", "24", "25", "26", "27", "28", "30",
                "32", "33", "34", "35", "36", "38", "40", "41", "45" }

----------------------------------------------------------------------------
(* Query cleaning and attribute extraction *)

(* The blank a removed stop phrase leaves behind: the code replaces the    *)
(* phrase by one space and collapses white space only at the end, so the   *)
(* words around a removed phrase are never adjacent for a later phrase.    *)
GAP == ""

stopPhrases ==
  << <<"original">>, <<"authentic">>, <<"100%", "authentic">>, <<"genuine">>,
     <<"w/", "all", "paperwork">>, <<"with", "all", "paperwork">>,
     <<"with", "paperwork">>, <<"all", "paperwork">>, <<"paperwork">>,
     <<"receipt">>, <<"dust", "bag">>, <<"dustbag">>, <<"box">>, <<"tags">>,
     <<"brand", "new">>, <<"nwt">>, <<"mint">>, <<"rare">> >>

RECURSIVE RemovePhrase(_, _)
(* t.replace(new RegExp("\\b" + p + "\\b", "gi"), " ") *)
RemovePhrase(t, p) ==
  IF Len(t) < Len(p) THEN t
  ELSE IF SubSeq(t, 1, Len(p)) = p
       THEN <<GAP>> \o RemovePhrase(SubSeq(t, Len(p) + 1, Len(t)), p)
       ELSE <<Head(t)>> \o RemovePhrase(Tail(t), p)

RECURSIVE RemovePhrases(_, _)
RemovePhrases(t, ps) ==
  IF ps = <<>> THEN t ELSE RemovePhrases(RemovePhrase(t, Head(ps)), Tail(ps))

cleanTitleForSearch(title) ==
  SeqFilterOut(RemovePhrases(title, stopPhrases), {GAP})

ALLOWED_SIZES ==
  { "15", "18", "20", "22", "24", "25", "26", "27", "28", "30", "32", "33",
    "34", "35", "36", "38", "40", "41", "45" }

RECURSIVE extractSizeToken(_)
(* the first whole word of the text that is an allowed size, or null *)
extractSizeToken(title) ==
  IF title = <<>> THEN Null
  ELSE IF Head(title) \in ALLOWED_SIZES THEN Head(title)
       ELSE extractSizeToken(Tail(title))

LEATHER_TOKENS ==
  << <<"epson">>, <<"togo">>, <<"clemence">>, <<"swift">>, <<"box">>,
     <<"chevre">>, <<"chevre", "mysore">>, <<"chevre", "mysores">>,
     <<"barenia">>, <<"barenia", "faubourg">>, <<"alligator">>,
     <<"crocodile">>, <<"ostrich">>, <<"lizard">> >>

RECURSIVE FirstIncluded(_, _)
(* the first phrase of the list ps that the text includes, or <<>> *)
FirstIncluded(t, ps) ==
  IF ps = <<>> THEN <<>>
  ELSE IF Includes(t, Head(ps)) THEN Head(ps)
       ELSE FirstIncluded(t, Tail(ps))

extractLeatherToken(title) ==
  LET lt == FirstIncluded(title, LEATHER_TOKENS)
  IN IF lt = <<>> THEN Null ELSE lt[1]

isBirkinOrKelly(body) ==
  LET isHermes == Includes(body.brand, <<"hermes">>)
      hasBK == Includes(body.title, <<"birkin">>) \/ Includes(body.title, <<"kelly">>)
  IN isHermes /\ hasBK

tokenizeStop ==
  { "bag", "handbag", "purse", "tote", "shoulder", "crossbody", "satchel",
    "hobo", "authentic", "original", "with", "all", "paperwork", "receipt",
    "dustbag", "dust", "box", "tags", "rare", "vintage", "women", "womens",
    "designer", "leather", "palladium", "gold", "silver", "hardware", "auth",
    "cert" }

RECURSIVE tokenizeFrom(_, _)
tokenizeFrom(toks, out) ==
  IF toks = <<>> THEN out
  ELSE LET tok == Head(toks)
           rest == Tail(toks)
       IN IF tok \in tokenizeStop THEN tokenizeFrom(rest, out)
          ELSE IF tok \in NumericWords
               THEN IF tok \in ALLOWED_SIZES /\ tok \notin Range(out)
                    THEN tokenizeFrom(rest, Append(out, tok))
                    ELSE tokenizeFrom(rest, out)
          ELSE IF tok \in ShortWords THEN tokenizeFrom(rest, out)
          ELSE IF tok \notin Range(out) THEN tokenizeFrom(rest, Append(out, tok))
          ELSE tokenizeFrom(rest, out)

tokenizeCore(title) == tokenizeFrom(title, <<>>)

noisy ==
  << <<"style">>, <<"inspired">>, <<"look">>, <<"like">>, <<"replica">>,
     <<"dupe">>, <<"faux">>, <<"not", "authentic">> >>

RECURSIVE NotIncluded(_, _)
(* the phrases of ps the text does not include, in order *)
NotIncluded(t, ps) ==
  IF ps = <<>> THEN <<>>
  ELSE IF Includes(t, Head(ps)) THEN NotIncluded(t, Tail(ps))
       ELSE <<Head(ps)>> \o NotIncluded(t, Tail(ps))

(* the noisy words alone, whatever the brand *)
noisyTermsOnly(body) == NotIncluded(body.title, noisy)

buildNegativeTerms(body) ==
  LET isHermes == Includes(body.brand, <<"hermes">>)
      titleHasBirkin == Includes(body.title, <<"birkin">>)
      titleHasKelly == Includes(body.title, <<"kelly">>)
      bk == IF ~(isHermes /\ (titleHasBirkin \/ titleHasKelly))
            THEN << <<"birkin">>, <<"kelly">> >> ELSE <<>>
  IN bk \o NotIncluded(body.title, noisy)

(* pattern: the words the regular expression matches in a normalized      *)
(* title; model: normalize(model label) as words; tokens: the label split *)
(* at spaces, each part normalized ("2.55" is one part, "2 55").          *)
modelPatterns ==
  << [pat |-> <<"birkin">>, model |-> <<"birkin">>, tokens |-> <<"birkin">>],
     [pat |-> <<"kelly">>, model |-> <<"kelly">>, tokens |-> <<"kelly">>],
     [pat |-> <<"classic", "flap">>, model |-> <<"classic", "flap">>,
      tokens |-> <<"classic", "flap">>],
     [pat |-> <<"255">>, model |-> <<"2", "55">>, tokens |-> <<"2 55">>],
     [pat |-> <<"boy">>, model |-> <<"boy">>, tokens |-> <<"boy">>],
     [pat |-> <<"neverfull">>, model |-> <<"neverfull">>, tokens |-> <<"neverfull">>],
     [pat |-> <<"speedy">>, model |-> <<"speedy">>, tokens |-> <<"speedy">>],
     [pat |-> <<"alma">>, model |-> <<"alma">>, tokens |-> <<"alma">>],
     [pat |-> <<"capucines">>, model |-> <<"capucines">>, tokens |-> <<"capucines">>],
     [pat |-> <<"peekaboo">>, model |-> <<"peekaboo">>, tokens |-> <<"peekaboo">>],
     [pat |-> <<"baguette">>, model |-> <<"baguette">>, tokens |-> <<"baguette">>],
     [pat |-> <<"saddle">>, model |-> <<"saddle">>, tokens |-> <<"saddle">>],
     [pat |-> <<"book", "tote">>, model |-> <<"book", "tote">>,
      tokens |-> <<"book", "tote">>],
     [pat |-> <<"lady", "dior">>, model |-> <<"lady", "dior">>,
      tokens |-> <<"lady", "dior">>],
     [pat |-> <<"cassandre">>, model |-> <<"cassandre">>, tokens |-> <<"cassandre">>],
     [pat |-> <<"le", "5", "a", "7">>, model |-> <<"le", "5", "a", "7">>,
      tokens |-> <<"le", "5", "a", "7">>],
     [pat |-> <<"loulou">>, model |-> <<"loulou">>, tokens |-> <<"loulou">>],
     [pat |-> <<"jamie">>, model |-> <<"jamie">>, tokens |-> <<"jamie">>] >>

(* a \b...\b pattern of whole words occurs in the text *)
HasWords(t, p) ==
  \E i \in 1..(Len(t) - Len(p) + 1) : \A j \in 1..Len(p) : t[i + j - 1] = p[j]

(* the result for a title no pattern matches: null in the code *)
NoModel == [pat |-> <<>>, model |-> <<>>, tokens |-> <<>>]

RECURSIVE FirstPattern(_, _)
FirstPattern(t, ps) ==
  IF ps = <<>> THEN NoModel
  ELSE IF HasWords(t, Head(ps).pat) THEN Head(ps)
       ELSE FirstPattern(t, Tail(ps))

(* the first matching entry of the pattern table, or NoModel *)
extractModelHint(body) == FirstPattern(body.title, modelPatterns)

(* A query string is the sequence of its terms: "text" is a quoted term,   *)
(* -"text" a quoted term with the exclusion sign.  The letters of a term   *)
(* are kept as the words of its normalized text.                           *)
QuotedTerm(text) == [text |-> text, quoted |-> TRUE, excluded |-> FALSE]
ExcludedTerm(text) == [text |-> text, quoted |-> TRUE, excluded |-> TRUE]

(* tokens.map((t) => `"${t}"`) *)
QuoteAll(texts) == [i \in DOMAIN texts |-> QuotedTerm(texts[i])]

(* negatives.map((n) => `-"${n}"`) *)
ExcludeAll(texts) == [i \in DOMAIN texts |-> ExcludedTerm(texts[i])]

(* the string array of single words as an array of texts *)
AsTexts(words) == [i \in DOMAIN words |-> <<words[i]>>]

buildSearchQuery(body) ==
  LET titleClean == cleanTitleForSearch(body.title)
      brandPart == IF body.brand # <<>> THEN <<body.brand>> ELSE <<>>
      size == extractSizeToken(titleClean)
      leather == extractLeatherToken(titleClean)
      modelHint == extractModelHint(body)
  IN IF isBirkinOrKelly(body)
     THEN LET model == IF Includes(titleClean, <<"birkin">>) THEN "birkin" ELSE "kelly"
              parts == (IF brandPart # <<>> THEN brandPart ELSE << <<"hermes">> >>)
                       \o << <<model>> >>
                       \o (IF size # Null THEN << <<size>> >> ELSE <<>>)
                       \o (IF leather # Null THEN << <<leather>> >> ELSE <<>>)
          IN QuoteAll(parts)
     ELSE LET tokens0 == AsTexts(Take(tokenizeCore(titleClean), 7))
              tokens1 == IF modelHint # NoModel /\ modelHint.model \notin Range(tokens0)
                         THEN <<modelHint.model>> \o tokens0 ELSE tokens0
              tokens2 == IF size # Null /\ <<size>> \notin Range(tokens1)
                         THEN << <<size>> >> \o tokens1 ELSE tokens1
              tokens == IF leather # Null /\ <<leather>> \notin Range(tokens2)
                        THEN Append(tokens2, <<leather>>) ELSE tokens2
              core == IF tokens # <<>> THEN QuoteAll(tokens)
                      ELSE <<QuotedTerm(titleClean)>>
          IN QuoteAll(brandPart) \o core \o ExcludeAll(buildNegativeTerms(body))

----------------------------------------------------------------------------
(* Comp quality ranking *)

JUNK_PHRASES ==
  << <<"strap">>, <<"shoulder", "strap">>, <<"chain">>, <<"charm">>,
     <<"bag", "charm">>, <<"twilly">>, <<"scarf">>, <<"keychain">>,
     <<"key", "chain">>, <<"key", "holder">>, <<"wallet">>,
     <<"card", "holder">>, <<"cardholder">>, <<"coin", "purse">>, <<"pouch">>,
     <<"insert">>, <<"organizer">>, <<"base", "shaper">>, <<"shaper">>,
     <<"stuffing">>, <<"raincoat">>, <<"rain", "coat">>, <<"cover">>,
     <<"replacement">>, <<"repair">>, <<"handle">>, <<"hardware">>,
     <<"lock", "only">>, <<"keys", "only">>, <<"certificate", "only">>,
     <<"auth", "card">>, <<"authenticity", "card">>, <<"receipt", "only">>,
     <<"box", "only">>, <<"dust", "bag", "only">>, <<"dustbag", "only">>,
     <<"for", "parts">>, <<"parts", "only">> >>

REPLICA_SIGNALS ==
  << <<"replica">>, <<"super", "fake">>, <<"dupe">>, <<"inspired">>,
     <<"style">>, <<"look", "like">>, <<"not", "authentic">>, <<"faux">>,
     <<"knockoff">>, <<"counterfeit">>, <<"copy">>, <<"mirror", "1", "1">> >>

(* an empty title or a replica signal; accessories pass *)
isReplicaTitle(title) ==
  \/ title = <<>>
  \/ \E i \in DOMAIN REPLICA_SIGNALS : Includes(title, REPLICA_SIGNALS[i])

isObviousJunkCompTitle(title) ==
  \/ title = <<>>
  \/ \E i \in DOMAIN REPLICA_SIGNALS : Includes(title, REPLICA_SIGNALS[i])
  \/ \E i \in DOMAIN JUNK_PHRASES : Includes(title, JUNK_PHRASES[i])

(* the normalized brand as words; <<>> stands for null *)
normalizeBrand(b) ==
  IF b = <<>> THEN <<>>
  ELSE IF b = <<"louisvuitton">> THEN <<"louis", "vuitton">>
  ELSE IF b = <<"saintlaurent">> THEN <<"saint", "laurent">>
  ELSE IF b = <<"yvessaintlaurent">> THEN <<"saint", "laurent">>
  ELSE b

conditionBucket(cond) ==
  IF cond = <<>> THEN "unknown"
  ELSE IF Includes(cond, <<"new">>) \/ Includes(cond, <<"brand", "new">>)
          \/ Includes(cond, <<"unused">>) THEN "new"
  ELSE IF Includes(cond, <<"pre-owned">>) \/ Includes(cond, <<"used">>)
          \/ Includes(cond, <<"very", "good">>) \/ Includes(cond, <<"good">>)
          \/ Includes(cond, <<"acceptable">>) THEN "used"
  ELSE "unknown"

(* Number(body.price?.amount || 0): a missing amount counts as 0 *)
AmountOrZero(body) == IF body.hasAmount THEN body.amount ELSE 0

buildTargetSignals(body) ==
  LET titleClean == cleanTitleForSearch(body.title)
      brand == normalizeBrand(body.brand)
      mh == extractModelHint(body)
  IN [ brand |-> brand,
       size |-> extractSizeToken(titleClean),
       leather |-> extractLeatherToken(titleClean),
       modelHint |-> mh.model,
       coreTokens |-> tokenizeCore(titleClean),
       modelTokens |-> mh.tokens,
       brandTokens |-> brand,
       negatives |-> buildNegativeTerms(body),
       asking |-> AmountOrZero(body),
       askingCurrency |-> IF body.currency = "" THEN "USD" ELSE body.currency,
       targetCond |-> conditionBucket(body.cond) ]

(* Math.round(45 * Math.pow(hits / total, 0.7)), by total (1..8) and hits *)
overlapTable ==
  << <<0, 45>>,
     <<0, 28, 45>>,
     <<0, 21, 34, 45>>,
     <<0, 17, 28, 37, 45>>,
     <<0, 15, 24, 31, 38, 45>>,
     <<0, 13, 21, 28, 34, 40, 45>>,
     <<0, 12, 19, 25, 30, 36, 40, 45>>,
     <<0, 10, 17, 23, 28, 32, 37, 41, 45>> >>

(* a target token occurs in the comp title as a whole word *)
TokenHit(tok, compTitleNorm) ==
  IF tok = "2 55" THEN HasWords(compTitleNorm, <<"2", "55">>)
  ELSE HasWord(compTitleNorm, tok)

tokenOverlapScore(targetTokens, compTitleNorm) ==
  IF targetTokens = <<>> THEN [hits |-> 0, total |-> 0, score |-> 0]
  ELSE LET hits == Cardinality({i \in DOMAIN targetTokens :
                                   TokenHit(targetTokens[i], compTitleNorm)})
           total == Len(targetTokens)
       IN [ hits |-> hits, total |-> total,
            score |-> IF total <= Len(overlapTable)
                      THEN overlapTable[total][hits + 1] ELSE 0 ]

(* n kept from below only *)
clampBelow(n, lo, hi) == Max2(lo, n)

clamp(n, lo, hi) == Max2(lo, Min2(hi, n))

(* floor(10000 * exp(1 - (k - 0.5) / 25)) for k = 1..25: the price ratio   *)
(* up to which Math.round(25 * (1 - |ln r|)) is at least k                 *)
closenessBounds ==
  << 26644, 25599, 24596, 23631, 22704, 21814, 20959, 20137, 19347, 18589,
     17860, 17160, 16487, 15840, 15219, 14622, 14049, 13498, 12969, 12460,
     11972, 11502, 11051, 10618, 10202 >>

priceClosenessScore(asking, compPrice) ==
  IF asking <= 0 \/ compPrice <= 0 THEN 0
  ELSE LET hi == Max2(asking, compPrice)
           lo == Min2(asking, compPrice)
       IN Cardinality({k \in DOMAIN closenessBounds :
                          hi * 10000 <= closenessBounds[k] * lo})

(* the price band applied whatever the asking price *)
OutsideBandAnyAsking(asking, p) ==
  /\ asking > 0 /\ p > 0
  /\ (4 * p < asking \/ p > 3 * asking)

(* the coarse price band of the loop body: TRUE when the comp is dropped *)
OutsideSanityBand(asking, p) ==
  /\ asking > 0 /\ p > 0
  /\ \/ (asking >= 300 /\ 4 * p < asking)
     \/ (asking >= 300 /\ p > 3 * asking)

(* the first negative term the comp title includes, or <<>> *)
negHitOf(target, titleNorm) == FirstIncluded(titleNorm, target.negatives)

(* the score of one comp before the clamp: the additive signals of the     *)
(* loop body, in the order of the code                                     *)
rawScore(target, c) ==
  LET titleNorm == c.title
      neg == IF negHitOf(target, titleNorm) # <<>> THEN -35 ELSE 0
      brand ==
        IF target.brand = <<>> THEN 0
        ELSE IF Includes(titleNorm, target.brand) THEN 22
        ELSE IF Len(target.brandTokens) >= 2
                /\ tokenOverlapScore(target.brandTokens, titleNorm).hits >= 1
             THEN 12
        ELSE 0
      model ==
        IF target.modelHint = <<>> THEN 0
        ELSE IF Includes(titleNorm, target.modelHint) THEN 18
        ELSE IF target.modelTokens # <<>>
                /\ tokenOverlapScore(target.modelTokens, titleNorm).hits
                     >= Min2(2, Len(target.modelTokens))
             THEN 10
        ELSE 0
      compSize == extractSizeToken(c.title)
      size ==
        IF target.size = Null THEN 0
        ELSE IF compSize # Null /\ compSize = target.size THEN 20
        ELSE IF compSize # Null /\ compSize # target.size THEN -18
        ELSE -8
      compLeather == extractLeatherToken(c.title)
      leather ==
        IF target.leather = Null THEN 0
        ELSE IF compLeather # Null /\ compLeather = target.leather THEN 10
        ELSE IF compLeather # Null /\ compLeather # target.leather THEN -6
        ELSE 0
      overlap ==
        tokenOverlapScore(Take(Dedup(target.modelTokens \o target.coreTokens), 8),
                          titleNorm).score
      tc == target.targetCond
      cc == conditionBucket(c.cond)
      cond ==
        IF tc # "unknown" /\ cc # "unknown"
        THEN (IF tc = cc THEN 6 ELSE -4) ELSE 0
      ccy ==
        IF c.currency # "" /\ target.askingCurrency # ""
           /\ c.currency # target.askingCurrency THEN -6 ELSE 0
  IN neg + brand + model + size + leather + overlap + cond + ccy
       + priceClosenessScore(target.asking, c.amount)

(* TRUE when the loop body pushes the comp to the output list *)
keepsComp(target, c) ==
  /\ c.url # 0 /\ c.title # <<>>
  /\ ~isObviousJunkCompTitle(c.title)
  /\ ~OutsideSanityBand(target.asking, c.amount)
  /\ clamp(rawScore(target, c), 0, 100) >= 45

scored(target, c) ==
  [ url |-> c.url, title |-> c.title, amount |-> c.amount,
    currency |-> c.currency, cond |-> c.cond,
    qualityScore |-> clamp(rawScore(target, c), 0, 100) ]

RECURSIVE keptComps(_, _)
keptComps(target, compsIn) ==
  IF compsIn = <<>> THEN <<>>
  ELSE IF keepsComp(target, Head(compsIn))
       THEN <<scored(target, Head(compsIn))>> \o keptComps(target, Tail(compsIn))
       ELSE keptComps(target, Tail(compsIn))

RECURSIVE InsertBeforeEquals(_, _)
(* c inserted into a list sorted by descending score, before its equals *)
InsertBeforeEquals(sorted, c) ==
  IF sorted = <<>> THEN <<c>>
  ELSE IF Head(sorted).qualityScore > c.qualityScore
       THEN <<Head(sorted)>> \o InsertBeforeEquals(Tail(sorted), c)
       ELSE <<c>> \o sorted

RECURSIVE InsertByScore(_, _)
(* c inserted into a list sorted by descending score, after its equals *)
InsertByScore(sorted, c) ==
  IF sorted = <<>> THEN <<c>>
  ELSE IF Head(sorted).qualityScore >= c.qualityScore
       THEN <<Head(sorted)>> \o InsertByScore(Tail(sorted), c)
       ELSE <<c>> \o sorted

RECURSIVE sortByScore(_)
(* Array.prototype.sort with (a, b) => b.score - a.score: stable *)
sortByScore(s) ==
  IF s = <<>> THEN <<>>
  ELSE InsertByScore(sortByScore(SubSeq(s, 1, Len(s) - 1)), s[Len(s)])

(* every comp, whatever its score *)
SelectAnyScore(s, n) == s

RECURSIVE SelectScoreAtLeast(_, _)
SelectScoreAtLeast(s, n) ==
  IF s = <<>> THEN <<>>
  ELSE IF Head(s).qualityScore >= n
       THEN <<Head(s)>> \o SelectScoreAtLeast(Tail(s), n)
       ELSE SelectScoreAtLeast(Tail(s), n)

rankAndFilterComps(body, compsIn) ==
  LET target == buildTargetSignals(body)
      out == sortByScore(keptComps(target, compsIn))
      topForStats == SelectScoreAtLeast(out, 60)
      usedForStats ==
        Take(IF Len(topForStats) >= 4 THEN topForStats ELSE out, 10)
  IN [ ranked |-> out,
       usedForStats |-> usedForStats,
       counts |-> [ input |-> Len(compsIn), kept |-> Len(out),
                    used |-> Len(usedForStats) ] ]

----------------------------------------------------------------------------
(* Stats helpers.  Amounts are integers; a statistic of them is kept in    *)
(* quarters (value * 4), which holds every median and every 25th and 75th  *)
(* percentile of integers exactly.                                         *)

RECURSIVE InsertAsc(_, _)
InsertAsc(sorted, x) ==
  IF sorted = <<>> THEN <<x>>
  ELSE IF Head(sorted) <= x THEN <<Head(sorted)>> \o InsertAsc(Tail(sorted), x)
       ELSE <<x>> \o sorted

(* the list as it is handed in *)
keepOrder(s) == s

RECURSIVE sortAsc(_)
sortAsc(s) == IF s = <<>> THEN <<>> ELSE InsertAsc(sortAsc(Tail(s)), Head(s))

(* median(nums) * 4, for a non-empty list *)
median4(nums) ==
  LET arr == sortAsc(nums)
      mid == Len(arr) \div 2
  IN IF Len(arr) % 2 = 1 THEN 4 * arr[mid + 1]
     ELSE 2 * (arr[mid] + arr[mid + 1])

(* percentile(nums, q / 4) * 4, for a non-empty list and q in 0..4 *)
percentile4(nums, q) ==
  LET arr == sortAsc(nums)
      idx4 == (Len(arr) - 1) * q
      lo == idx4 \div 4
      frac4 == idx4 % 4
      hi == IF frac4 = 0 THEN lo ELSE lo + 1
  IN IF lo = hi THEN 4 * arr[lo + 1]
     ELSE 4 * arr[lo + 1] + (arr[hi + 1] - arr[lo + 1]) * frac4

(* Math.round(v / d) for an integer v and a positive d: halves go up *)
RoundDiv(v, d) == (2 * v + d) \div (2 * d)

----------------------------------------------------------------------------
(* Deal labels and data coverage.  A ratio is kept as num / den with       *)
(* den >= 0; den = 0 is the non-finite ratio (0 / 0 = NaN).                *)

Ratio(num, den) ==
  IF den < 0 THEN [num |-> 0 - num, den |-> 0 - den] ELSE [num |-> num, den |-> den]

(* ratio <= a / 100, false for NaN as every comparison with NaN is *)
RatioLe(r, a) == r.den > 0 /\ r.num * 100 <= a * r.den

(* the labels with the fair band ending at 0.95 *)
dealLabelNarrow(r) ==
  IF r.den = 0 \/ r.num <= 0 THEN "fair_price"
  ELSE IF RatioLe(r, 88) THEN "great_deal"
  ELSE IF RatioLe(r, 95) THEN "fair_price"
  ELSE "overpriced"

dealLabelFromRatio(r) ==
  IF r.den = 0 \/ r.num <= 0 THEN "fair_price"
  ELSE IF RatioLe(r, 88) THEN "great_deal"
  ELSE IF RatioLe(r, 105) THEN "fair_price"
  ELSE "overpriced"

RECURSIVE ScoreSum(_)
ScoreSum(cs) == IF cs = <<>> THEN 0 ELSE Head(cs).qualityScore + ScoreSum(Tail(cs))

(* the tier taken from the number of comps alone *)
coverageByCount(usedForStats) ==
  IF Len(usedForStats) >= 10 THEN "strong"
  ELSE IF Len(usedForStats) >= 7 THEN "standard"
  ELSE "limited"

coverageFromQuality(usedForStats) ==
  IF Len(usedForStats) >= 10
  THEN LET sum == ScoreSum(usedForStats)
           n == Len(usedForStats)
       IN IF sum >= 78 * n THEN "strong"
          ELSE IF sum >= 68 * n THEN "standard"
          ELSE "limited"
  ELSE IF Len(usedForStats) >= 7 THEN "standard"
  ELSE "limited"

looksLikeBag(text) ==
  LET bagSignals ==
        << <<"bag">>, <<"handbag">>, <<"tote">>, <<"flap">>, <<"hobo">>,
           <<"satchel">>, <<"shoulder", "bag">>, <<"crossbody">>, <<"kelly">>,
           <<"birkin">>, <<"chanel">>, <<"hermes">>, <<"louis", "vuitton">>,
           <<"lv">>, <<"dior">>, <<"prada">>, <<"gucci">>, <<"celine">>,
           <<"fendi">>, <<"ysl">>, <<"saint", "laurent">> >>
  IN \E i \in DOMAIN bagSignals : Includes(text, bagSignals[i])

----------------------------------------------------------------------------
(* The marketplace: what the two search collaborators hold.  A comp as     *)
(* fetchActiveComps and fetchSoldComps return it has a non-empty url (an   *)
(* identifier here, 0 for none) and a finite positive amount.              *)

Comp(url, title, amount, cond) ==
  [url |-> url, title |-> title, amount |-> amount, currency |-> "USD", cond |-> cond]

(* comps of one title and condition, one per price, with urls base + i *)
CompsAt(base, title, prices, cond) ==
  [i \in 1..Len(prices) |-> Comp(base + i, title, prices[i], cond)]

tExact == <<"louis", "vuitton", "neverfull", "mm", "monogram">>
tShort == <<"lv", "neverfull", "mm", "tote">>
tOther == <<"louis", "vuitton", "speedy", "30">>
tStrap == <<"lv", "neverfull", "strap", "only">>
tStyle == <<"louis", "vuitton", "neverfull", "style", "tote">>
tBirkin == <<"hermes", "birkin", "louis", "vuitton", "neverfull">>

SOLD_WINDOWS == <<90, 180, 365>>

SoldKinds == {"none", "few", "some", "many"}

(* the sold comps the marketplace holds for a lookback window, by the      *)
(* kind of market: the longer windows hold other listings                  *)
SoldList(days, kind) ==
  IF kind = "none" THEN <<>>
  ELSE IF kind = "few" THEN
    IF days = 90 THEN CompsAt(9100, tExact, <<790, 810, 830>>, <<"pre-owned">>)
    ELSE IF days = 180 THEN CompsAt(18100, tExact, <<600, 640, 700>>, <<"pre-owned">>)
    ELSE CompsAt(36100, tOther, <<900, 910, 920>>, <<>>)
  ELSE IF kind = "some" THEN
    IF days = 90
    THEN CompsAt(9200, tExact, <<780, 790, 800, 810, 820, 830>>, <<"pre-owned">>)
    ELSE IF days = 180
    THEN CompsAt(18200, tExact, <<880, 900, 910, 920, 940>>, <<"pre-owned">>)
           \o CompsAt(18250, tOther, <<905, 915, 925>>, <<"used">>)
    ELSE CompsAt(36200, tExact, <<640, 660>>, <<"pre-owned">>)
           \o CompsAt(36250, tStrap, <<60>>, <<"new">>)
           \o CompsAt(36260, tStyle, <<300>>, <<>>)
           \o CompsAt(36270, tShort, <<2000>>, <<>>)
  ELSE
    IF days = 90
    THEN CompsAt(9300, tExact,
                 <<700, 720, 740, 750, 761, 762, 790, 800, 820, 850, 900, 950>>,
                 <<"pre-owned">>)
    ELSE IF days = 180
    THEN CompsAt(18300, tShort, <<800, 805, 795, 810, 790, 700>>, <<"used">>)
           \o CompsAt(18350, tExact, <<780, 820>>, <<"pre-owned">>)
           \o CompsAt(18370, tShort, <<815, 785, 900, 720, 880>>, <<"used">>)
    ELSE CompsAt(36300, tShort, <<800, 790, 810, 700, 900, 650, 950>>, <<>>)
           \o CompsAt(36350, tStrap, <<45>>, <<>>)
           \o CompsAt(36360, tBirkin, <<820>>, <<>>)
           \o CompsAt(36370, tExact, <<150, 2500>>, <<"new">>)
           \o CompsAt(36380, tShort, <<805, 795, 780, 600>>, <<"new">>)

(* the active listings the marketplace holds: fewer where nothing sold in  *)
(* the longest window                                                      *)
ActiveList(m) ==
  IF m[365] = "none" THEN CompsAt(5000, tExact, <<820, 840>>, <<"new">>)
  ELSE CompsAt(5000, tExact, <<820, 840, 860, 880, 900>>, <<"new">>)

(* a market gives, for each lookback window, the kind of sold list it holds *)
MarketOf(k90, k180, k365) ==
  [d \in Range(SOLD_WINDOWS) |-> IF d = 90 THEN k90 ELSE IF d = 180 THEN k180 ELSE k365]

(* the markets explored: the search reaches the minimum at the first, the  *)
(* second or the third window, or at none, with the largest result at the  *)
(* first, the middle or the last window                                    *)
Markets ==
  { MarketOf("many", "many", "many"), MarketOf("some", "many", "many"),
    MarketOf("few", "some", "many"), MarketOf("some", "some", "some"),
    MarketOf("some", "few", "none"), MarketOf("none", "few", "some"),
    MarketOf("few", "few", "few"), MarketOf("none", "none", "none") }

----------------------------------------------------------------------------
(* Requests *)

Listing(title, brand, amount) ==
  [ title |-> title, brand |-> brand, categoryHint |-> <<>>,
    cond |-> <<"pre-owned">>, hasAmount |-> TRUE, amount |-> amount,
    currency |-> "USD", itemKey |-> "item-1" ]

tTarget == <<"louis", "vuitton", "neverfull", "mm">>
bTarget == <<"louis", "vuitton">>

(* bodies that pass the validation of the handler *)
ValidBodies ==
  { Listing(tTarget, bTarget, 800), Listing(tTarget, bTarget, 0 - 100) }

(* bodies that lack the title, the amount or the currency *)
IncompleteBodies ==
  { [Listing(tTarget, bTarget, 800) EXCEPT !.title = <<>>],
    [Listing(tTarget, bTarget, 800) EXCEPT !.hasAmount = FALSE, !.amount = 0],
    [Listing(tTarget, bTarget, 800) EXCEPT !.currency = ""],
    [Listing(<<>>, <<>>, 0) EXCEPT !.hasAmount = FALSE, !.currency = ""] }

(* a complete body that is no bag *)
WatchBody == Listing(<<"vintage", "watch">>, <<"omega">>, 800)

Bodies == ValidBodies \cup IncompleteBodies \cup {WatchBody}

Request(method, deviceId, source, nocache, body) ==
  [ method |-> method, deviceId |-> deviceId, source |-> source,
    nocache |-> nocache, body |-> body ]

Requests ==
  { Request("POST", "dev-1", "ebay", nc, b) : nc \in BOOLEAN, b \in Bodies }
  \cup { Request(m, "dev-1", "ebay", FALSE, Listing(tTarget, bTarget, 800)) :
          m \in {"GET", "OPTIONS"} }
  \cup { Request("POST", "", "ebay", FALSE, Listing(tTarget, bTarget, 800)),
          Request("POST", "dev-1", "other", FALSE, Listing(tTarget, bTarget, 800)) }

(* a body is taken as complete when it has a title *)
HasTitleOnly(body) == body.title # <<>>

(* the body has a title, a numeric price amount and a price currency *)
HasTitlePrice(body) == body.title # <<>> /\ body.currency # "" /\ body.hasAmount

(* sha256 of source, item key, title, amount, currency and cache buster:   *)
(* the fields the key is made of                                           *)
cacheKeyOf(r) ==
  [ source |-> r.source, itemKey |-> r.body.itemKey, title |-> r.body.title,
    amount |-> r.body.amount, currency |-> r.body.currency ]

CacheKeys == { cacheKeyOf(r) : r \in Requests }

----------------------------------------------------------------------------
(* Bounds *)

MaxRequests == 2
MaxTicks == 1

TOKEN_MARGIN_MS == 30 * 1000
(* one hour *)
CacheTtlShort == 60 * 60 * 1000

CACHE_TTL_MS == 6 * 60 * 60 * 1000

(* how far the clock moves in one step, and the lifetimes (expires_in,    *)
(* seconds) the token endpoint grants                                      *)
TickSteps == {TOKEN_MARGIN_MS, CACHE_TTL_MS}
TokenLifetimes == {60}

----------------------------------------------------------------------------
(* State *)

VARIABLES
  config,          \* which environment variables are set
  market,          \* what the sold search holds for each window
  now,             \* the clock, ms
  ticks,           \* clock steps taken
  users,           \* device ids of the rows of table users
  cache,           \* table cache: key -> entry
  analyses,        \* table analyses: the rows inserted, in order
  tokenCache,      \* the module-level eBay token cache
  nreq,            \* requests received
  pc,              \* where the handler is in the current request
  req,             \* the current request
  activeAll, soldAll, soldWindowDays, bestSoldCount, bestSoldWindow,
  widx,            \* index in SOLD_WINDOWS of the next sold call
  res,             \* the response of the current request
  calls,           \* history: the collaborator calls of the current request
  effects,         \* history: the store operations of the current request
  seen,            \* history: one remembered earlier request and its answer
  fn               \* the pure function applied last, its input and its output

stores == <<users, cache, analyses, tokenCache>>
locals == <<activeAll, soldAll, soldWindowDays, bestSoldCount, bestSoldWindow, widx>>
vars == <<config, market, now, ticks, stores, nreq, pc, req, locals, res, calls,
          effects, seen, fn>>

(* what the collaborators and the store do during one request: the active *)
(* search works, or its token request fails, or the search itself fails;   *)
(* the sold search fails for the windows in sold; the store operations in  *)
(* store return an error                                                   *)
StoreOps == {"users.select", "users.insert", "cache.select", "cache.upsert",
             "analyses.insert"}

NoFaults == [active |-> "ok", sold |-> {}, store |-> {}]

Faults ==
  { [NoFaults EXCEPT !.active = a] : a \in {"ok", "token-error", "search-error"} }
  \cup { [NoFaults EXCEPT !.sold = s] : s \in {{90}, {180}, Range(SOLD_WINDOWS)} }
  \cup { [NoFaults EXCEPT !.store = {op}] : op \in StoreOps }
  \cup { [ active |-> "search-error", sold |-> Range(SOLD_WINDOWS),
            store |-> {"cache.select", "cache.upsert", "analyses.insert"} ] }

(* the payload of a response that carries none *)
NoPayload ==
  [ label |-> "", score |-> 0, ratioFinite |-> FALSE, ratioMilli |-> 0,
    bullets |-> <<>>, marketValue |-> 0, low |-> 0, high |-> 0,
    confidence |-> "", method |-> "", methodWindow |-> 0,
    resalePresent |-> FALSE, resaleValue |-> 0, resaleCount |-> 0,
    comps |-> <<>>, daysWindow |-> 0, compsCount |-> 0,
    soldCompsCountBestAttempt |-> 0, activeCompsCount |-> 0,
    soldKeptAfterFiltering |-> 0, soldCompsUsed |-> 0,
    query |-> <<>>, metaKeys |-> {} ]

NoEntry == [present |-> FALSE, value_json |-> NoPayload, expires_at |-> 0]
NoToken == [present |-> FALSE, expiresAtMs |-> 0]
NoResponse == [status |-> 0, error |-> "", cached |-> FALSE, payload |-> NoPayload]
NoRequest ==
  [ method |-> "", deviceId |-> "", source |-> "", nocache |-> FALSE,
    body |-> Listing(<<>>, <<>>, 0), faults |-> NoFaults, deadlineAt |-> 0 - 1 ]
NotSeen == [present |-> FALSE, body |-> Listing(<<>>, <<>>, 0), faults |-> NoFaults,
            cached |-> FALSE, calls |-> <<>>, payload |-> NoPayload]

(* no pure function has been applied *)
NoApplication == [name |-> "none"]

FullConfig == [supabase |-> TRUE, ebayId |-> TRUE, ebaySecret |-> TRUE]

Configs ==
  { FullConfig,
    [supabase |-> FALSE, ebayId |-> TRUE, ebaySecret |-> TRUE],
    [supabase |-> TRUE, ebayId |-> FALSE, ebaySecret |-> TRUE],
    [supabase |-> TRUE, ebayId |-> TRUE, ebaySecret |-> FALSE] }

(* nothing has been received, stored or fetched *)
HandlerIdle ==
  /\ now = 0 /\ ticks = 0
  /\ users = {}
  /\ cache = [k \in CacheKeys |-> NoEntry]
  /\ analyses = <<>>
  /\ tokenCache = NoToken
  /\ nreq = 0
  /\ pc = "idle"
  /\ req = NoRequest
  /\ activeAll = <<>> /\ soldAll = <<>>
  /\ soldWindowDays = 0 /\ bestSoldCount = 0 /\ bestSoldWindow = 0
  /\ widx = 1
  /\ res = NoResponse
  /\ calls = <<>>
  /\ effects = {}
  /\ seen = NotSeen

Init ==
  /\ \/ config = FullConfig /\ market \in Markets
     \/ config \in Configs /\ market = MarketOf("few", "some", "many")
  /\ HandlerIdle
  /\ fn = NoApplication

----------------------------------------------------------------------------
(* The payload of the handler (step 5 of the code) *)

(* every comp list a search can return in the model *)
RECURSIVE Amounts(_)
(* comps.map(c => c.price.amount).filter(n => Number.isFinite(n) && n > 0) *)
Amounts(cs) ==
  IF cs = <<>> THEN <<>>
  ELSE IF Head(cs).amount > 0 THEN <<Head(cs).amount>> \o Amounts(Tail(cs))
       ELSE Amounts(Tail(cs))

Urls(cs) == [i \in DOMAIN cs |-> cs[i].url]

(* the score of the comp-based branch, from ratio = asking / median *)
compScore(r) ==
  IF RatioLe(r, 85) THEN 88
  ELSE IF RatioLe(r, 95) THEN 80
  ELSE IF RatioLe(r, 105) THEN 68
  ELSE IF RatioLe(r, 115) THEN 58
  ELSE 48

(* the heuristic score with the middle band widened to 1.10 *)
heuristicScoreWide(r) ==
  IF RatioLe(r, 95) THEN 74
  ELSE IF RatioLe(r, 110) THEN 62
  ELSE 54

(* the score of the heuristic branch *)
heuristicScore(r) ==
  IF RatioLe(r, 95) THEN 74
  ELSE IF RatioLe(r, 105) THEN 62
  ELSE 54

(* Number(ratio.toFixed(3)) in thousandths; NaN has none *)
RatioMilli(r) == IF r.den > 0 THEN RoundDiv(1000 * r.num, r.den) ELSE 0

(* three comps used are taken as enough for a comp-based estimate *)
compBasedFrom3(soldRanked) == Len(soldRanked.usedForStats) >= 3

(* the branch guard of step 5: enough comps were selected for statistics *)
compBased(soldRanked) == Len(soldRanked.usedForStats) >= 4

(* step 5, from the ranked active and sold comps of step 4 *)
(* the keys of the meta object of the payload, the same in both branches;  *)
(* a key of a nested object is written with its path                      *)
metaKeys ==
  { "backendVersion", "sold.daysWindow", "sold.compsCount",
    "sold.soldCompsCountBestAttempt", "active.compsCount", "query",
    "marketplaceId", "filter", "soldCompsFound", "soldKeptAfterFiltering",
    "soldCompsUsed", "activeCompsFound" }

(* what the value of a meta key reports, as the code computes that value:  *)
(* a synthesized query string, a comp count of a source at a stage, or the *)
(* lookback window                                                         *)
metaReports(key) ==
  CASE key = "query" -> <<"query">>
    [] key = "sold.daysWindow" -> <<"window">>
    [] key \in {"sold.compsCount", "soldCompsFound"} -> <<"sold", "raw">>
    [] key = "sold.soldCompsCountBestAttempt" -> <<"sold", "best-attempt">>
    [] key = "soldKeptAfterFiltering" -> <<"sold", "kept">>
    [] key = "soldCompsUsed" -> <<"sold", "used">>
    [] key \in {"active.compsCount", "activeCompsFound"} -> <<"active", "raw">>
    [] OTHER -> <<"other">>

buildPayload(body, query, active, activeRanked, sold, soldRanked, windowDays, bestCount, bestWindow) ==
  LET activePrices == Amounts(activeRanked.usedForStats)
      soldCompsForUI == Take(soldRanked.ranked, 12)
      asking == body.amount
      daysWindow == IF windowDays # 0 THEN windowDays ELSE bestWindow
      common ==
        [ NoPayload EXCEPT
            !.resalePresent = activePrices # <<>>,
            !.resaleValue = IF activePrices # <<>>
                            THEN RoundDiv(median4(activePrices), 4) ELSE 0,
            !.resaleCount = Len(active),
            !.daysWindow = daysWindow,
            !.compsCount = Len(sold),
            !.soldCompsCountBestAttempt = bestCount,
            !.activeCompsCount = Len(active),
            !.soldKeptAfterFiltering = soldRanked.counts.kept,
            !.soldCompsUsed = soldRanked.counts.used,
            !.query = query,
            !.metaKeys = metaKeys ]
  IN IF compBased(soldRanked)
     THEN LET prices == Amounts(soldRanked.usedForStats)
              med4 == median4(prices)
              ratio == Ratio(asking * 4, med4)
          IN [ common EXCEPT
                 !.label = dealLabelFromRatio(ratio),
                 !.score = compScore(ratio),
                 !.ratioFinite = TRUE,
                 !.ratioMilli = RatioMilli(ratio),
                 !.bullets = <<"asking-vs-sold-median", "quality-ranking">>,
                 !.marketValue = RoundDiv(med4, 4),
                 !.low = RoundDiv(percentile4(prices, 1), 4),
                 !.high = RoundDiv(percentile4(prices, 3), 4),
                 !.confidence = coverageFromQuality(soldRanked.usedForStats),
                 !.method = "sold-comps-median-top-quality",
                 !.methodWindow = windowDays,
                 !.comps = Urls(soldCompsForUI) ]
     ELSE LET ratio == Ratio(asking * 100, asking * 93)
          IN [ common EXCEPT
                 !.label = dealLabelFromRatio(ratio),
                 !.score = heuristicScore(ratio),
                 !.ratioFinite = ratio.den > 0,
                 !.ratioMilli = RatioMilli(ratio),
                 !.bullets = IF windowDays # 0
                             THEN <<"sold-comps-limited-window-extended">>
                             ELSE <<"very-limited-sold-comps-heuristics">>,
                 !.marketValue = RoundDiv(asking * 93, 100),
                 !.low = RoundDiv(asking * 84, 100),
                 !.high = RoundDiv(asking * 102, 100),
                 !.confidence = "limited",
                 !.method = "limited-sold-signals",
                 !.comps = IF soldCompsForUI # <<>> THEN Urls(soldCompsForUI)
                           ELSE Urls(Take(sold, 12)) ]

----------------------------------------------------------------------------
(* The handler, one action per awaited step *)

ErrorResponse(status, error) ==
  [status |-> status, error |-> error, cached |-> FALSE, payload |-> NoPayload]

(* res.status(...).json(...): the handler is done with the request *)
Respond(r) ==
  /\ res' = r
  /\ pc' = "done"

(* the checks of the handler without the check of the store's env vars *)
validateNoEnv(r) ==
  IF r.method = "OPTIONS" THEN ErrorResponse(204, "")
  ELSE IF r.method # "POST" THEN ErrorResponse(405, "Method not allowed. Use POST.")
  ELSE IF r.deviceId = "" THEN ErrorResponse(400, "Missing x-device-id header")
  ELSE IF r.source # "ebay" THEN ErrorResponse(400, "Only source=ebay supported (Phase 1)")
  ELSE IF ~HasTitlePrice(r.body) THEN ErrorResponse(400, "Missing title/price")
  ELSE IF ~looksLikeBag(r.body.title \o r.body.categoryHint \o r.body.brand)
       THEN ErrorResponse(400, "Phase 1 supports bags only")
  ELSE NoResponse

(* the checks of the handler before its first store operation: the error   *)
(* response the request gets there, or NoResponse when it passes           *)
validate(r) ==
  IF r.method = "OPTIONS" THEN ErrorResponse(204, "")
  ELSE IF r.method # "POST" THEN ErrorResponse(405, "Method not allowed. Use POST.")
  ELSE IF ~config.supabase THEN ErrorResponse(500, "Missing Supabase env vars")
  ELSE IF r.deviceId = "" THEN ErrorResponse(400, "Missing x-device-id header")
  ELSE IF r.source # "ebay" THEN ErrorResponse(400, "Only source=ebay supported (Phase 1)")
  ELSE IF ~HasTitlePrice(r.body) THEN ErrorResponse(400, "Missing title/price")
  ELSE IF ~looksLikeBag(r.body.title \o r.body.categoryHint \o r.body.brand)
       THEN ErrorResponse(400, "Phase 1 supports bags only")
  ELSE NoResponse

(* the sold comps of an earlier request, which take the place of the      *)
(* empty list when the list is not declared anew by each invocation       *)
soldAllCarried == soldAll

(* let soldAll: Comp[] = [] *)
soldAllAtStart == <<>>

(* request r arrives while the collaborators and the store behave as f:    *)
(* the handler runs up to its first await, v being what its checks answer  *)
HandlerStart(r, f, v) ==
  /\ req' = [ method |-> r.method, deviceId |-> r.deviceId, source |-> r.source,
              nocache |-> r.nocache, body |-> r.body, faults |-> f,
              deadlineAt |-> 0 - 1 ]
  /\ nreq' = nreq + 1
  /\ activeAll' = <<>> /\ soldAll' = soldAllAtStart
  /\ soldWindowDays' = 0 /\ bestSoldCount' = 0
  /\ bestSoldWindow' = 0
  /\ widx' = 1
  /\ calls' = <<>> /\ effects' = {}
  /\ IF v = NoResponse THEN pc' = "user" /\ res' = NoResponse ELSE Respond(v)
  /\ UNCHANGED <<config, market, fn, now, ticks, stores, seen>>

(* a request arrives *)
Receive ==
  /\ pc \in {"idle", "done"}
  /\ nreq < MaxRequests
  /\ \E r \in Requests :
       \E v \in {validate(r)} :
         \E f \in (IF v = NoResponse THEN Faults ELSE {NoFaults}) :
           HandlerStart(r, f, v)

(* step 1: get or create the user; an error of the store is thrown and     *)
(* caught by the handler's catch (500)                                     *)
GetOrCreateUser ==
  /\ pc = "user"
  /\ IF "users.select" \in req.faults.store
     THEN /\ effects' = effects \cup {"users.select"}
          /\ Respond(ErrorResponse(500, "Internal error"))
          /\ users' = users
     ELSE IF req.deviceId \in users
     THEN /\ effects' = effects \cup {"users.select"}
          /\ pc' = "cache" /\ UNCHANGED <<res, users>>
     ELSE IF "users.insert" \in req.faults.store
     THEN /\ effects' = effects \cup {"users.select", "users.insert"}
          /\ Respond(ErrorResponse(500, "Internal error"))
          /\ users' = users
     ELSE /\ effects' = effects \cup {"users.select", "users.insert"}
          /\ users' = users \cup {req.deviceId}
          /\ pc' = "cache" /\ UNCHANGED res
  /\ UNCHANGED <<config, market, fn, now, ticks, cache, analyses, tokenCache, nreq, req,
                 locals, calls, seen>>

(* step 2: read the cache unless nocache=1; a read that fails is a miss *)
ReadCache ==
  /\ pc = "cache"
  /\ IF req.nocache
     THEN /\ pc' = "fetch" /\ UNCHANGED <<res, effects>>
     ELSE LET cached == cache[cacheKeyOf(req)]
              cacheValid == /\ "cache.select" \notin req.faults.store
                            /\ cached.present /\ cached.expires_at > now
          IN /\ effects' = effects \cup {"cache.select"}
             /\ IF cacheValid
                THEN Respond([ status |-> 200, error |-> "", cached |-> TRUE,
                               payload |-> cached.value_json ])
                ELSE /\ pc' = "fetch" /\ UNCHANGED res
  /\ UNCHANGED <<config, market, fn, now, ticks, stores, nreq, req, locals, calls, seen>>

(* getEbayAppToken: "cached" when the cached token has more than 30 s      *)
(* left, "error" when the credentials are missing or the request fails,    *)
(* else "fresh"                                                            *)
(* the cached token is taken as long as it has not expired *)
tokenOutcomeNoMargin ==
  IF tokenCache.present /\ tokenCache.expiresAtMs > now THEN "cached"
  ELSE IF ~config.ebayId \/ ~config.ebaySecret THEN "error"
  ELSE IF req.faults.active = "token-error" THEN "error"
  ELSE "fresh"

tokenOutcome ==
  IF tokenCache.present /\ tokenCache.expiresAtMs > now + TOKEN_MARGIN_MS THEN "cached"
  ELSE IF ~config.ebayId \/ ~config.ebaySecret THEN "error"
  ELSE IF req.faults.active = "token-error" THEN "error"
  ELSE "fresh"

(* fetchActiveComps: the record of the call; n is the number of comps it   *)
(* returns, -1 when it throws                                              *)
activeCall ==
  IF tokenOutcome = "error" THEN [api |-> "token", days |-> 0, n |-> 0 - 1]
  ELSE IF req.faults.active = "search-error"
       THEN [api |-> "active", days |-> 0, n |-> 0 - 1]
  ELSE [api |-> "active", days |-> 0, n |-> Len(ActiveList(market))]

(* tokenCache = {accessToken, expiresAtMs: now + expires_in * 1000} *)
TokenAfterFetch(lifetime) ==
  IF tokenOutcome = "fresh"
  THEN [present |-> TRUE, expiresAtMs |-> now + lifetime * 1000]
  ELSE tokenCache

(* step A: the active comps; any error leaves activeAll empty *)
FetchActive ==
  /\ pc = "fetch"
  /\ \E lifetime \in TokenLifetimes : tokenCache' = TokenAfterFetch(lifetime)
  /\ \E query \in {buildSearchQuery(req.body)} :
       calls' = Append(calls, [query |-> query] @@ activeCall)
  /\ activeAll' = IF activeCall.n < 0 THEN <<>> ELSE ActiveList(market)
  /\ pc' = "sold"
  /\ UNCHANGED <<config, market, fn, now, ticks, users, cache, analyses, nreq, req,
                 soldAll, soldWindowDays, bestSoldCount, bestSoldWindow, widx, res,
                 effects, seen>>

(* a threshold above what the 90 and 180 day windows return *)
MinSoldRaised == 12 + 2

MIN_SOLD_FOR_STRONG == 12

(* fetchSoldComps: it throws without the app id and when the search fails *)
soldFails(days) == ~config.ebayId \/ days \in req.faults.sold

(* every attempt replaces the one kept: the last one wins *)
lastAttempt(sold, kept) == Len(sold) >= 0 /\ Len(kept) >= 0

(* an attempt as long as the one kept replaces it as well *)
sameOrBetterAttempt(sold, kept) == Len(sold) >= Len(kept)

(* sold.length > soldAll.length: the attempt replaces the one kept so far *)
betterAttempt(sold, kept) == Len(sold) > Len(kept)

(* step B: one iteration of the loop over SOLD_WINDOWS *)
FetchSold ==
  /\ pc = "sold"
  /\ \E query \in {buildSearchQuery(req.body)} :
     LET days == SOLD_WINDOWS[widx]
         sold == SoldList(days, market[days])
         last == widx = Len(SOLD_WINDOWS)
     IN IF soldFails(days)
        THEN /\ calls' = Append(calls, [ api |-> "sold", days |-> days, n |-> 0 - 1,
                                         query |-> query ])
             /\ UNCHANGED <<soldAll, soldWindowDays, bestSoldCount, bestSoldWindow>>
             /\ IF last THEN pc' = "build" /\ widx' = widx
                ELSE pc' = "sold" /\ widx' = widx + 1
        ELSE /\ calls' = Append(calls, [ api |-> "sold", days |-> days, n |-> Len(sold),
                                         query |-> query ])
             /\ bestSoldCount' = IF Len(sold) > bestSoldCount THEN Len(sold)
                                 ELSE bestSoldCount
             /\ bestSoldWindow' = IF Len(sold) > bestSoldCount THEN days
                                  ELSE bestSoldWindow
             /\ IF Len(sold) >= MIN_SOLD_FOR_STRONG
                THEN /\ soldAll' = sold /\ soldWindowDays' = days
                     /\ pc' = "build" /\ widx' = widx
                ELSE /\ IF betterAttempt(sold, soldAll)
                        THEN soldAll' = sold /\ soldWindowDays' = days
                        ELSE UNCHANGED <<soldAll, soldWindowDays>>
                     /\ IF last THEN pc' = "build" /\ widx' = widx
                        ELSE pc' = "sold" /\ widx' = widx + 1
  /\ UNCHANGED <<config, market, fn, now, ticks, stores, nreq, req, activeAll, res,
                 effects, seen>>

(* the cache upsert and the analyses insert, then the response with the    *)
(* payload. The two store writes return their error instead of throwing,   *)
(* and the handler does not look at it.                                    *)
StoreAndRespond(payload) ==
  /\ cache' = IF "cache.upsert" \notin req.faults.store
              THEN [cache EXCEPT ![cacheKeyOf(req)] =
                      [ present |-> TRUE, value_json |-> payload,
                        expires_at |-> now + CACHE_TTL_MS ]]
              ELSE cache
  /\ analyses' = IF "analyses.insert" \notin req.faults.store
                 THEN Append(analyses, [ user |-> req.deviceId,
                                         item_key |-> req.body.itemKey,
                                         method |-> payload.method ])
                 ELSE analyses
  /\ effects' = effects \cup {"cache.upsert", "analyses.insert"}
  /\ Respond([status |-> 200, error |-> "", cached |-> FALSE, payload |-> payload])
  /\ UNCHANGED <<config, market, fn, now, ticks, users, tokenCache, nreq, req, locals,
                 calls, seen>>

(* steps 4 to 7: rank, build the payload, write the cache, log, answer *)
Finish ==
  /\ pc = "build"
  /\ \E activeRanked \in {rankAndFilterComps(req.body, activeAll)},
        soldRanked \in {rankAndFilterComps(req.body, soldAll)},
        query \in {buildSearchQuery(req.body)} :
       \E payload \in {buildPayload(req.body, query, activeAll, activeRanked,
                                    soldAll, soldRanked, soldWindowDays,
                                    bestSoldCount, bestSoldWindow)} :
         StoreAndRespond(payload)

(* time passes between two requests *)
Tick ==
  /\ pc = "done"
  /\ ticks < MaxTicks
  /\ \E d \in TickSteps : now' = now + d
  /\ ticks' = ticks + 1
  /\ UNCHANGED <<config, market, fn, stores, nreq, pc, req, locals, res, calls, effects,
                 seen>>

Next ==
  \/ Receive
  \/ GetOrCreateUser
  \/ ReadCache
  \/ FetchActive
  \/ FetchSold
  \/ Finish
  \/ Tick

Spec == Init /\ [][Next]_vars

----------------------------------------------------------------------------
(* The earlier handler of analyze.ts (lines 773-1065): the sold comps      *)
(* first, the active comps only when no sold comp was found; the steps up  *)
(* to the cache read are those of the later handler.                       *)

MIN_COMPS == 12

(* confidenceFromQuality: the tiers of the earlier handler *)
confidenceFromQuality(usedForStats) ==
  IF Len(usedForStats) >= 10
  THEN IF ScoreSum(usedForStats) >= 78 * Len(usedForStats) THEN "high"
       ELSE IF ScoreSum(usedForStats) >= 68 * Len(usedForStats) THEN "medium"
       ELSE "low"
  ELSE IF Len(usedForStats) >= 7 THEN "medium"
  ELSE "low"

(* 3A: one iteration of the loop over the sold windows; compsAll and       *)
(* windowDays of the code are soldAll and soldWindowDays here              *)
FetchSoldV1 ==
  /\ pc = "fetch"
  /\ LET days == SOLD_WINDOWS[widx]
         sold == SoldList(days, market[days])
         last == widx = Len(SOLD_WINDOWS)
         fails == soldFails(days)
         enough == ~fails /\ Len(sold) >= MIN_COMPS
         keeps == ~fails /\ (enough \/ Len(sold) > Len(soldAll))
     IN /\ calls' = Append(calls, [ api |-> "sold", days |-> days,
                                    n |-> IF fails THEN 0 - 1 ELSE Len(sold),
                                    query |-> buildSearchQuery(req.body) ])
        /\ soldAll' = IF keeps THEN sold ELSE soldAll
        /\ soldWindowDays' = IF keeps THEN days ELSE soldWindowDays
        /\ IF enough \/ last
           THEN /\ widx' = widx
                /\ pc' = IF (IF keeps THEN sold ELSE soldAll) = <<>>
                         THEN "fallback" ELSE "build"
           ELSE /\ widx' = widx + 1
                /\ pc' = "fetch"
  /\ UNCHANGED <<config, market, fn, now, ticks, stores, nreq, req, activeAll,
                 bestSoldCount, bestSoldWindow, res, effects, seen>>

(* 3B: no sold comp was found: the active comps, fetched outside any try   *)
(* of the step, so that an error reaches the catch of the handler (500)    *)
FetchActiveV1 ==
  /\ pc = "fallback"
  /\ \E lifetime \in TokenLifetimes : tokenCache' = TokenAfterFetch(lifetime)
  /\ calls' = Append(calls, [query |-> buildSearchQuery(req.body)] @@ activeCall)
  /\ IF activeCall.n < 0
     THEN /\ Respond(ErrorResponse(500, "Internal error"))
          /\ UNCHANGED <<soldAll, soldWindowDays>>
     ELSE /\ soldAll' = ActiveList(market)
          /\ soldWindowDays' = 0
          /\ pc' = "build" /\ res' = res
  /\ UNCHANGED <<config, market, fn, now, ticks, users, cache, analyses, nreq, req,
                 activeAll, bestSoldCount, bestSoldWindow, widx, effects, seen>>

(* steps 4 and 5 of the earlier handler *)
buildPayloadV1(body, compsAll, ranked, windowDays) ==
  LET compsForUI == Take(ranked.ranked, 12)
      asking == body.amount
      common ==
        [ NoPayload EXCEPT
            !.daysWindow = windowDays,
            !.compsCount = Len(compsAll),
            !.soldKeptAfterFiltering = ranked.counts.kept,
            !.soldCompsUsed = ranked.counts.used ]
  IN IF Len(ranked.usedForStats) >= 4
     THEN LET prices == Amounts(ranked.usedForStats)
              ratio == Ratio(asking * 4, median4(prices))
          IN [ common EXCEPT
                 !.label = dealLabelFromRatio(ratio),
                 !.score = compScore(ratio),
                 !.ratioFinite = TRUE,
                 !.ratioMilli = RatioMilli(ratio),
                 !.bullets = <<"top-quality-comps", "asking-vs-comp-median",
                               "quality-ranking">>,
                 !.marketValue = RoundDiv(median4(prices), 4),
                 !.low = RoundDiv(percentile4(prices, 1), 4),
                 !.high = RoundDiv(percentile4(prices, 3), 4),
                 !.confidence = confidenceFromQuality(ranked.usedForStats),
                 !.method = "active-comps-median-top-quality",
                 !.comps = Urls(compsForUI) ]
     ELSE LET ratio == Ratio(asking * 100, asking * 93)
          IN [ common EXCEPT
                 !.label = dealLabelFromRatio(ratio),
                 !.score = heuristicScore(ratio),
                 !.ratioFinite = ratio.den > 0,
                 !.ratioMilli = RatioMilli(ratio),
                 !.bullets = <<"not-enough-comps", "low-confidence-estimate">>,
                 !.marketValue = RoundDiv(asking * 93, 100),
                 !.low = RoundDiv(asking * 84, 100),
                 !.high = RoundDiv(asking * 102, 100),
                 !.confidence = "low",
                 !.method = "limited-signals",
                 !.comps = IF compsForUI # <<>> THEN Urls(compsForUI)
                           ELSE Urls(Take(compsAll, 12)) ]

FinishV1 ==
  /\ pc = "build"
  /\ \E ranked \in {rankAndFilterComps(req.body, soldAll)} :
       \E payload \in {buildPayloadV1(req.body, soldAll, ranked, soldWindowDays)} :
         StoreAndRespond(payload)

NextV1 ==
  \/ Receive
  \/ GetOrCreateUser
  \/ ReadCache
  \/ FetchSoldV1
  \/ FetchActiveV1
  \/ FinishV1
  \/ Tick

SpecV1 == Init /\ [][NextV1]_vars

----------------------------------------------------------------------------
(* The handler of src/unnamed/part_000: active comps only, filtered by     *)
(* currency, brand, price band and interquartile range.                    *)

(* the checks of that handler: the environment is checked first *)
validateV0(r) ==
  IF ~config.supabase THEN ErrorResponse(500, "Missing Supabase env vars")
  ELSE IF r.method = "OPTIONS" THEN ErrorResponse(204, "")
  ELSE IF r.method # "POST" THEN ErrorResponse(405, "Method not allowed. Use POST.")
  ELSE IF r.deviceId = "" THEN ErrorResponse(400, "Missing x-device-id header")
  ELSE IF r.source # "ebay" THEN ErrorResponse(400, "Only source=ebay supported (Phase 1)")
  ELSE IF ~HasTitlePrice(r.body) THEN ErrorResponse(400, "Missing title/price")
  ELSE IF ~looksLikeBag(r.body.title \o r.body.categoryHint \o r.body.brand)
       THEN ErrorResponse(400, "Phase 1 supports bags only")
  ELSE NoResponse

ReceiveV0 ==
  /\ pc \in {"idle", "done"}
  /\ nreq < MaxRequests
  /\ \E r \in Requests :
       \E v \in {validateV0(r)} :
         \E f \in (IF v = NoResponse THEN Faults ELSE {NoFaults}) :
           HandlerStart(r, f, v)

(* step 3: the active comps, fetched outside any try of the step *)
FetchActiveV0 ==
  /\ pc = "fetch"
  /\ \E lifetime \in TokenLifetimes : tokenCache' = TokenAfterFetch(lifetime)
  /\ calls' = Append(calls, activeCall)
  /\ IF activeCall.n < 0
     THEN /\ Respond(ErrorResponse(500, "Internal error"))
          /\ activeAll' = activeAll
     ELSE /\ activeAll' = ActiveList(market)
          /\ pc' = "build" /\ res' = res
  /\ UNCHANGED <<config, market, fn, now, ticks, users, cache, analyses, nreq, req,
                 soldAll, soldWindowDays, bestSoldCount, bestSoldWindow, widx,
                 effects, seen>>

brandAliases(brand) ==
  IF brand = <<>> THEN <<>>
  ELSE IF Includes(brand, <<"louis", "vuitton">>)
       THEN << <<"louis", "vuitton">>, <<"lv">> >>
  ELSE IF Includes(brand, <<"saint", "laurent">>)
       THEN << <<"saint", "laurent">>, <<"ysl">> >>
  ELSE IF Includes(brand, <<"hermes">>) THEN << <<"hermes">> >>
  ELSE <<brand>>

(* the comps of cs that the filter keeps, when at least 4 remain; else cs *)
KeepIfEnough(cs, filtered) == IF Len(filtered) >= 4 THEN filtered ELSE cs

(* the comps the estimate of that handler uses *)
compsUsedV0(body, compsAll) ==
  LET asking == body.amount
      aliases == brandAliases(body.brand)
      SameCurrency(c) == c.currency = body.currency
      Gated(c) == \E i \in DOMAIN aliases : Includes(c.title, aliases[i])
      Banded(c) == c.amount > 0 /\ 4 * c.amount >= asking /\ c.amount <= 4 * asking
      base == KeepIfEnough(compsAll, SelectSeq(compsAll, SameCurrency))
      gated == IF aliases = <<>> THEN base
               ELSE KeepIfEnough(base, SelectSeq(base, Gated))
      banded == KeepIfEnough(gated, SelectSeq(gated, Banded))
      pricesForIqr == Amounts(banded)
      (* iqrBounds: lo = q1 - 1.5 * iqr, hi = q3 + 1.5 * iqr, from 8 prices on *)
      InIqr(c) ==
        \/ Len(pricesForIqr) < 8
        \/ /\ 8 * c.amount >= 5 * percentile4(pricesForIqr, 1)
                                 - 3 * percentile4(pricesForIqr, 3)
           /\ 8 * c.amount <= 5 * percentile4(pricesForIqr, 3)
                                 - 3 * percentile4(pricesForIqr, 1)
  IN KeepIfEnough(banded, SelectSeq(banded, InIqr))

(* the payload of that handler; it carries a rating where the later        *)
(* handlers carry a label                                                  *)
buildPayloadV0(body, compsAll, compsUsed) ==
  LET asking == body.amount
      common == [ NoPayload EXCEPT !.compsCount = Len(compsAll),
                                   !.soldCompsUsed = Len(compsUsed) ]
  IN IF Len(compsUsed) >= 4
     THEN LET prices == Amounts(compsUsed)
          IN [ common EXCEPT
                 !.score = compScore(Ratio(asking * 4, median4(prices))),
                 !.bullets = <<"real-ebay-comps", "asking-vs-comp-median",
                               "next-sold-comps">>,
                 !.marketValue = RoundDiv(median4(prices), 4),
                 !.low = RoundDiv(percentile4(prices, 1), 4),
                 !.high = RoundDiv(percentile4(prices, 3), 4),
                 !.confidence = IF Len(prices) >= 16 THEN "high"
                                ELSE IF Len(prices) >= 10 THEN "medium"
                                ELSE "low",
                 !.method = "active-comps-median",
                 !.comps = Urls(Take(compsUsed, 12)) ]
     ELSE [ common EXCEPT
              !.score = heuristicScore(Ratio(asking * 100, asking * 93)),
              !.bullets = <<"not-enough-comps", "heuristic-estimate",
                            "next-query-parsing">>,
              !.marketValue = RoundDiv(asking * 93, 100),
              !.low = RoundDiv(asking * 84, 100),
              !.high = RoundDiv(asking * 102, 100),
              !.confidence = "medium",
              !.method = "fallback-heuristic",
              !.comps = Urls(Take(compsAll, 12)) ]

FinishV0 ==
  /\ pc = "build"
  /\ \E compsUsed \in {compsUsedV0(req.body, activeAll)} :
       \E payload \in {buildPayloadV0(req.body, activeAll, compsUsed)} :
         StoreAndRespond(payload)

NextV0 ==
  \/ ReceiveV0
  \/ GetOrCreateUser
  \/ ReadCache
  \/ FetchActiveV0
  \/ FinishV0
  \/ Tick

SpecV0 == Init /\ [][NextV0]_vars

----------------------------------------------------------------------------
(* Repeated analyses of one listing: requests that pass every check, with  *)
(* one earlier request and its answer remembered for comparison.           *)

MaxAnalyses == 3

(* the collaborators work, or the token request fails, or every sold       *)
(* search fails                                                            *)
AnalysisFaults ==
  { NoFaults, [NoFaults EXCEPT !.active = "token-error"],
    [NoFaults EXCEPT !.sold = Range(SOLD_WINDOWS)] }

ReceiveAnalysis ==
  /\ pc \in {"idle", "done"}
  /\ nreq < MaxAnalyses
  /\ \E nc \in BOOLEAN, f \in AnalysisFaults :
       \E r \in {Request("POST", "dev-1", "ebay", nc, Listing(tTarget, bTarget, 800))} :
         HandlerStart(r, f, validate(r))

(* the answered request is remembered, if none is yet *)
Remember ==
  /\ pc = "done" /\ res.status = 200
  /\ ~seen.present
  /\ seen' = [ present |-> TRUE, body |-> req.body, faults |-> req.faults,
               cached |-> res.cached, calls |-> calls, payload |-> res.payload ]
  /\ UNCHANGED <<config, market, fn, now, ticks, stores, nreq, pc, req, locals, res,
                 calls, effects>>

InitStateless ==
  /\ Init
  /\ config = FullConfig
  /\ market \in {MarketOf("few", "some", "many"), MarketOf("many", "many", "many")}

NextStateless ==
  \/ ReceiveAnalysis
  \/ GetOrCreateUser
  \/ ReadCache
  \/ FetchActive
  \/ FetchSold
  \/ Finish
  \/ Remember
  \/ Tick

SpecStateless == InitStateless /\ [][NextStateless]_vars

----------------------------------------------------------------------------
(* Analyses whose deadline passes, or whose client cancels, while a search *)
(* call is outstanding.  The signal is the platform's; the handler reads   *)
(* none and passes none to fetch.  deadlineAt keeps the number of calls    *)
(* that had returned when the signal fired, -1 before.                     *)

Deadline ==
  /\ pc \in {"fetch", "sold"}
  /\ req.deadlineAt < 0
  /\ req' = [req EXCEPT !.deadlineAt = Len(calls)]
  /\ UNCHANGED <<config, market, fn, now, ticks, stores, nreq, pc, locals, res, calls,
                 effects, seen>>

InitDeadline ==
  /\ Init
  /\ config = FullConfig
  /\ market \in {MarketOf("few", "some", "many"), MarketOf("none", "none", "none")}

NextDeadline ==
  \/ ReceiveAnalysis
  \/ GetOrCreateUser
  \/ ReadCache
  \/ FetchActive
  \/ FetchSold
  \/ Finish
  \/ Deadline

SpecDeadline == InitDeadline /\ [][NextDeadline]_vars

----------------------------------------------------------------------------
(* The scorer applied to raw comp lists *)

MaxExtra == 3

(* the sequences over S of length at most n *)
SeqsUpTo(S, n) == UNION { [1..k -> S] : k \in 0..n }

handlerVars == <<config, market, now, ticks, stores, nreq, pc, req, locals, res,
                 calls, effects, seen>>

(* the listings the comps are ranked for: with and without a usable price *)
RankBodies == { Listing(tTarget, bTarget, 800), Listing(tTarget, bTarget, 0 - 100) }

(* raw comps: close and far matches, equal scores under different urls,    *)
(* accessory and replica titles, a price outside the sanity band, a comp   *)
(* without url                                                             *)
RankPool ==
  { Comp(1, tExact, 800, <<"pre-owned">>),
    Comp(2, tExact, 600, <<"pre-owned">>),
    Comp(3, tShort, 800, <<>>),
    Comp(4, tShort, 500, <<"new">>),
    Comp(5, tStrap, 800, <<"pre-owned">>),
    Comp(6, tStyle, 800, <<>>),
    Comp(7, tShort, 300, <<"new">>),
    Comp(8, tOther, 400, <<"new">>),
    Comp(9, tExact, 150, <<"pre-owned">>),
    Comp(0, tExact, 800, <<"pre-owned">>) }

(* the lists the extra comps are appended to: none, many close matches,    *)
(* far matches only, and three close matches among far ones                *)
RankBases ==
  { <<>>,
    CompsAt(100, tExact, <<700, 720, 740, 760, 780, 800, 820, 840, 860, 880, 900>>,
            <<"pre-owned">>),
    CompsAt(200, tShort, <<500, 510, 520, 490, 480>>, <<"new">>),
    CompsAt(300, tShort, <<500, 510, 520>>, <<"new">>)
      \o CompsAt(310, tExact, <<790, 810, 830>>, <<"pre-owned">>) }

(* listings ranked for short raw lists only: an asking price below the    *)
(* sanity threshold of 300, and a title that holds the word style         *)
RankBodiesShort == { Listing(tTarget, bTarget, 200), Listing(tStyle, bTarget, 800) }

RawLists == { base \o extra : base \in RankBases, extra \in SeqsUpTo(RankPool, MaxExtra) }

NoRanking ==
  [ ranked |-> <<>>, usedForStats |-> <<>>,
    counts |-> [input |-> 0, kept |-> 0, used |-> 0] ]

InitRank ==
  /\ config = FullConfig /\ market = MarketOf("few", "some", "many")
  /\ HandlerIdle
  /\ fn \in { [ name |-> "rankAndFilterComps", applied |-> FALSE, body |-> b,
                compsIn |-> l, out |-> NoRanking ] : b \in RankBodies, l \in RawLists }
          \cup { [ name |-> "rankAndFilterComps", applied |-> FALSE, body |-> b,
                   compsIn |-> l, out |-> NoRanking ] :
                   b \in RankBodiesShort, l \in SeqsUpTo(RankPool, MaxExtra) }

RankComps ==
  /\ fn.name = "rankAndFilterComps" /\ ~fn.applied
  /\ \E out \in {rankAndFilterComps(fn.body, fn.compsIn)} :
       fn' = [fn EXCEPT !.applied = TRUE, !.out = out]
  /\ UNCHANGED handlerVars

NextRank == RankComps

SpecRank == InitRank /\ [][NextRank]_vars

----------------------------------------------------------------------------
(* The negative terms of targets *)

MaxTitle == 3

NegBrands ==
  { <<>>, <<"hermes">>, <<"hermes", "paris">>, <<"louis", "vuitton">>, <<"chanel">> }

NegWords == {"hermes", "birkin", "kelly", "speedy", "30", "style", "louis"}

NegBodies ==
  { Listing(t, b, 800) : t \in SeqsUpTo(NegWords, MaxTitle), b \in NegBrands }

InitNeg ==
  /\ config = FullConfig /\ market = MarketOf("few", "some", "many")
  /\ HandlerIdle
  /\ fn \in { [ name |-> "buildNegativeTerms", applied |-> FALSE, body |-> b,
                out |-> <<>> ] : b \in NegBodies }

BuildNegatives ==
  /\ fn.name = "buildNegativeTerms" /\ ~fn.applied
  /\ \E out \in {buildNegativeTerms(fn.body)} :
       fn' = [fn EXCEPT !.applied = TRUE, !.out = out]
  /\ UNCHANGED handlerVars

NextNeg == BuildNegatives

SpecNeg == InitNeg /\ [][NextNeg]_vars

----------------------------------------------------------------------------
(* normalize, on characters.  A raw string is a sequence of characters:    *)
(* ASCII letters, a digit, underscore, hyphen, space, "tab" for the other  *)
(* white space (\s), "!" for ASCII punctuation, E-acute in both cases,     *)
(* "mark" for a combining mark of U+0300..U+036F, the Kelvin sign "K-sign" *)
(* (lower case k, canonical decomposition K) and sharp s, a letter outside *)
(* \w that has no decomposition.                                           *)

MaxChars == 4

RawChars ==
  {"A", "a", "7", "_", "-", " ", "tab", "!", "E-acute", "e-acute", "mark",
   "K-sign", "sharp-s"}

RECURSIVE FlatMap(_, _)
(* the concatenation of f(c) for the characters c of s *)
FlatMap(f(_), s) == IF s = <<>> THEN <<>> ELSE f(Head(s)) \o FlatMap(f, Tail(s))

lowerOf(c) ==
  CASE c = "A" -> <<"a">>
    [] c = "E" -> <<"e">>
    [] c = "K" -> <<"k">>
    [] c = "E-acute" -> <<"e-acute">>
    [] c = "K-sign" -> <<"k">>
    [] OTHER -> <<c>>

(* String.prototype.toLowerCase *)
toLowerCase(s) == FlatMap(lowerOf, s)

decompositionOf(c) ==
  CASE c = "e-acute" -> <<"e", "mark">>
    [] c = "E-acute" -> <<"E", "mark">>
    [] c = "K-sign" -> <<"K">>
    [] OTHER -> <<c>>

(* String.prototype.normalize("NFD") *)
toNFD(s) == FlatMap(decompositionOf, s)

(* replace(/[\u0300-\u036f]/g, "") *)
stripMarks(s) == SelectSeq(s, LAMBDA c : c # "mark")

isWordChar(c) == c \in {"A", "E", "K", "a", "e", "k", "7", "_"}
isSpaceChar(c) == c \in {" ", "tab"}

(* replace(/[^\w\s-]/g, " ") *)
replaceOther(s) ==
  [i \in DOMAIN s |-> IF isWordChar(s[i]) \/ isSpaceChar(s[i]) \/ s[i] = "-"
                      THEN s[i] ELSE " "]

RECURSIVE collapseSpaces(_)
(* replace(/\s+/g, " ") *)
collapseSpaces(s) ==
  IF s = <<>> THEN <<>>
  ELSE IF isSpaceChar(Head(s))
       THEN IF Len(s) >= 2 /\ isSpaceChar(s[2]) THEN collapseSpaces(Tail(s))
            ELSE <<" ">> \o collapseSpaces(Tail(s))
       ELSE <<Head(s)>> \o collapseSpaces(Tail(s))

RECURSIVE trimStart(_)
trimStart(s) ==
  IF s # <<>> /\ isSpaceChar(Head(s)) THEN trimStart(Tail(s)) ELSE s

RECURSIVE trimEnd(_)
trimEnd(s) ==
  IF s # <<>> /\ isSpaceChar(s[Len(s)]) THEN trimEnd(SubSeq(s, 1, Len(s) - 1)) ELSE s

(* String.prototype.trim *)
trim(s) == trimEnd(trimStart(s))

(* white space collapsed before the other characters are replaced *)
normalizeCollapseFirst(s) ==
  trim(replaceOther(collapseSpaces(stripMarks(toNFD(toLowerCase(s))))))

normalize(s) ==
  trim(collapseSpaces(replaceOther(stripMarks(toNFD(toLowerCase(s))))))

InitNormalize ==
  /\ config = FullConfig /\ market = MarketOf("few", "some", "many")
  /\ HandlerIdle
  /\ fn \in { [ name |-> "normalize", applied |-> FALSE, input |-> x,
                once |-> <<>>, twice |-> <<>> ] : x \in SeqsUpTo(RawChars, MaxChars) }

(* normalize applied to the input, and again to its result *)
Normalize ==
  /\ fn.name = "normalize" /\ ~fn.applied
  /\ \E once \in {normalize(fn.input)} :
       fn' = [fn EXCEPT !.applied = TRUE, !.once = once, !.twice = normalize(once)]
  /\ UNCHANGED handlerVars

NextNormalize == Normalize

SpecNormalize == InitNormalize /\ [][NextNormalize]_vars

----------------------------------------------------------------------------
(* median and percentile applied to price lists *)

MaxPrices == 4

PricePool == {10, 20, 30, 40}

NonEmptyPrices == SeqsUpTo(PricePool, MaxPrices) \ {<<>>}

InitStats ==
  /\ config = FullConfig /\ market = MarketOf("few", "some", "many")
  /\ HandlerIdle
  /\ fn \in { [ name |-> "median", applied |-> FALSE, nums |-> n,
                median4 |-> 0, p25x4 |-> 0, p75x4 |-> 0 ] : n \in NonEmptyPrices }

(* median(nums), percentile(nums, 0.25) and percentile(nums, 0.75), each   *)
(* times 4                                                                 *)
ComputeStats ==
  /\ fn.name = "median" /\ ~fn.applied
  /\ fn' = [fn EXCEPT !.applied = TRUE,
                      !.median4 = median4(fn.nums),
                      !.p25x4 = percentile4(fn.nums, 1),
                      !.p75x4 = percentile4(fn.nums, 3)]
  /\ UNCHANGED handlerVars

NextStats == ComputeStats

SpecStats == InitStats /\ [][NextStats]_vars

----------------------------------------------------------------------------
(* The query the two searches send.  The query of buildSearchQuery grows   *)
(* with the words of the title and the brand; here it is a string of       *)
(* characters of any length up to MaxQueryChars, with or without white     *)
(* space at its ends.                                                      *)

MaxQueryChars == 260

ACTIVE_QUERY_MAX == 200
SOLD_QUERY_MAX == 250

(* s as it is *)
sliceNone(s, n) == s

(* s.slice(0, n) *)
sliceTo(s, n) == SubSeq(s, 1, IF Len(s) < n THEN Len(s) ELSE n)

(* the string of n characters x between lead and trail spaces *)
QueryText(lead, n, trail) ==
  [i \in 1..lead |-> " "] \o [i \in 1..n |-> "x"] \o [i \in 1..trail |-> " "]

InitQuery ==
  /\ config = FullConfig /\ market = MarketOf("few", "some", "many")
  /\ HandlerIdle
  /\ fn \in { [ name |-> "query", applied |-> FALSE, query |-> QueryText(a, n, b),
                q |-> <<>>, keywords |-> <<>> ] :
                a \in 0..1, n \in 0..MaxQueryChars, b \in 0..1 }

(* the first statements of fetchActiveComps and of fetchSoldComps *)
SendQueries ==
  /\ fn.name = "query" /\ ~fn.applied
  /\ fn' = [fn EXCEPT !.applied = TRUE,
                      !.q = sliceTo(trim(fn.query), ACTIVE_QUERY_MAX),
                      !.keywords = sliceTo(trim(fn.query), SOLD_QUERY_MAX)]
  /\ UNCHANGED handlerVars

NextQuery == SendQueries

SpecQuery == InitQuery /\ [][NextQuery]_vars

----------------------------------------------------------------------------
(* The heuristic branch of step 5 on the numbers a JSON body can carry.    *)
(* An asking price is a double: "whole" is the number n; "subnormal" is n  *)
(* times 2^-1074, the smallest positive doubles, where a product is        *)
(* rounded to a whole number of such units; "infinite" is Infinity, the    *)
(* value JSON.parse gives a number such as 1e999.                          *)

MaxWhole == 100
MaxUnits == 30

Askings ==
  { [kind |-> "whole", n |-> n] : n \in (0 - 5)..MaxWhole }
  \cup { [kind |-> "subnormal", n |-> n] : n \in 1..MaxUnits }
  \cup { [kind |-> "infinite", n |-> 1] }

(* asking / (asking * 0.93); no multiple of 0.93 below 50 units lies       *)
(* halfway between two units, so the nearest unit is RoundDiv              *)
heuristicRatio(asking) ==
  IF asking.kind = "infinite" THEN Ratio(0, 0)
  ELSE IF asking.kind = "subnormal" THEN Ratio(asking.n, RoundDiv(asking.n * 93, 100))
  ELSE Ratio(asking.n * 100, asking.n * 93)

InitHeuristic ==
  /\ config = FullConfig /\ market = MarketOf("few", "some", "many")
  /\ HandlerIdle
  /\ fn \in { [ name |-> "heuristic", applied |-> FALSE, asking |-> a,
                label |-> "", score |-> 0 ] : a \in Askings }

ApplyHeuristic ==
  /\ fn.name = "heuristic" /\ ~fn.applied
  /\ \E ratio \in {heuristicRatio(fn.asking)} :
       fn' = [fn EXCEPT !.applied = TRUE,
                        !.label = dealLabelFromRatio(ratio),
                        !.score = heuristicScore(ratio)]
  /\ UNCHANGED handlerVars

NextHeuristic == ApplyHeuristic

SpecHeuristic == InitHeuristic /\ [][NextHeuristic]_vars

----------------------------------------------------------------------------
(* Properties *)

(* the current request has been answered with a freshly computed payload *)
Fresh == pc = "done" /\ res.status = 200 /\ ~res.cached

IsSoldCall(c) == c.api = "sold"

(* the sold-search calls of the current request, in order *)
SoldCalls == SelectSeq(calls, IsSoldCall)

(* the number of comps of a call, a failed call counting as none *)
CountOf(c) == IF c.n < 0 THEN 0 ELSE c.n

(* the largest count any sold call of the current request returned *)
MaxSoldCount ==
  IF SoldCalls = <<>> THEN 0
  ELSE CHOOSE m \in {CountOf(SoldCalls[i]) : i \in DOMAIN SoldCalls} :
         \A i \in DOMAIN SoldCalls : CountOf(SoldCalls[i]) <= m

(* the body has a title, a numeric price amount and a price currency *)
HasFields(body) == body.title # <<>> /\ body.hasAmount /\ body.currency # ""

(* the comps selected for statistics from the sold comps of the request *)
UsedNow == rankAndFilterComps(req.body, soldAll).usedForStats

(* the label for the ratio num / den, by the thresholds 0.88 and 1.05 *)
LabelOf(num, den) ==
  IF den = 0 \/ num = 0 \/ (num > 0) # (den > 0) THEN "fair_price"
  ELSE LET n == IF num < 0 THEN 0 - num ELSE num
           d == IF den < 0 THEN 0 - den ELSE den
       IN IF 100 * n <= 88 * d THEN "great_deal"
          ELSE IF 100 * n <= 105 * d THEN "fair_price"
          ELSE "overpriced"

(* C1: in one analysis the sold search is called for the windows 90, 180,  *)
(* 365 in this order, each at most once, and a call is made only when      *)
(* every earlier call of the analysis returned fewer than 12 comps or      *)
(* failed: no call follows one that returned 12 or more.                   *)
C1_SoldWindowsInOrderUntilEnough ==
  /\ Len(SoldCalls) <= 3
  /\ \A i \in DOMAIN SoldCalls :
       /\ SoldCalls[i].days = <<90, 180, 365>>[i]
       /\ \A j \in 1..(i - 1) : SoldCalls[j].n < 12

(* an analysis that escalated once and stopped at the second window *)
C1_Witness ==
  /\ pc = "done"
  /\ Len(SoldCalls) = 2
  /\ SoldCalls[1].n \in 0..11
  /\ SoldCalls[2].n >= 12

(* C2: when no sold window returned at least 12 comps, the list that is    *)
(* ranked and counted in the response is the result of a call whose count  *)
(* is the largest of the analysis, a failed call counting as zero.         *)
C2_BestAttemptKept ==
  (pc = "build" \/ Fresh) /\ (\A i \in DOMAIN SoldCalls : SoldCalls[i].n < 12)
  => /\ Len(soldAll) = MaxSoldCount
     /\ soldAll # <<>> =>
          \E i \in DOMAIN SoldCalls :
            /\ SoldCalls[i].n = MaxSoldCount
            /\ SoldCalls[i].days = soldWindowDays
            /\ soldAll = SoldList(soldWindowDays, market[soldWindowDays])
     /\ Fresh => res.payload.compsCount = MaxSoldCount

(* the largest result came from the middle window *)
C2_Witness ==
  /\ Fresh
  /\ Len(SoldCalls) = 3
  /\ SoldCalls[2].n < 12
  /\ SoldCalls[2].n > SoldCalls[1].n /\ SoldCalls[2].n > SoldCalls[3].n
  /\ res.payload.compsCount = SoldCalls[2].n

(* C3: a failed active or sold search call, a failed token request         *)
(* included, never leads to an error response: the request is answered     *)
(* with an estimate.                                                       *)
C3_CollaboratorFailureNeverAnError ==
  pc = "done" /\ (\E i \in DOMAIN calls : calls[i].n < 0) => res.status = 200

(* C4 as stated: a request is answered with an estimate exactly when its   *)
(* body has a title, a numeric price amount and a price currency.          *)
C4_OnlyMissingFieldsError ==
  pc = "done" => (res.status = 200 <=> HasFields(req.body))

(* C4: a request is answered with an estimate exactly when it is a POST    *)
(* with a device id and source ebay, the store is configured, the body has *)
(* title, amount and currency and reads like a bag, and the user row could *)
(* be read or created; the search collaborators, the cache and the         *)
(* analysis log have no part in it.                                        *)
C4_EstimateUnlessRejectedOrNoUser ==
  pc = "done" =>
    /\ res.status \in {200, 204, 400, 405, 500}
    /\ res.status = 200 <=>
         /\ req.method = "POST" /\ config.supabase
         /\ req.deviceId # "" /\ req.source = "ebay"
         /\ HasFields(req.body)
         /\ looksLikeBag(req.body.title \o req.body.categoryHint \o req.body.brand)
         /\ "users.select" \notin req.faults.store
         /\ req.deviceId \in users

(* an estimate although both searches, the cache and the log failed *)
C4_Witness ==
  /\ pc = "done" /\ res.status = 200
  /\ req.faults.active = "search-error"
  /\ req.faults.sold = Range(SOLD_WINDOWS)
  /\ {"cache.select", "cache.upsert", "analyses.insert"} \subseteq req.faults.store

C6_HeuristicFromAskingAlone ==
  Fresh /\ Len(UsedNow) < 4
  => /\ 100 * res.payload.marketValue - 93 * req.body.amount \in -50..50
     /\ 100 * res.payload.low - 84 * req.body.amount \in -50..50
     /\ 100 * res.payload.high - 102 * req.body.amount \in -50..50

(* asking 800 with three comps received gives 744 *)
C6_Witness ==
  /\ Fresh /\ Len(soldAll) = 3 /\ Len(UsedNow) = 3
  /\ req.body.amount = 800
  /\ res.payload.marketValue = 744 /\ res.payload.low = 672
  /\ res.payload.high = 816

(* C7: with fewer than 4 comps usable for statistics the response is a     *)
(* success with the heuristic estimate, its confidence tier is limited and *)
(* it carries an explanatory bullet.                                       *)
C7_HeuristicIsLimited ==
  Fresh /\ res.payload.method \in {"limited-sold-signals", "limited-signals",
                                   "fallback-heuristic"}
  => res.payload.confidence = "limited" /\ res.payload.bullets # <<>>

(* C8 as stated: the label of a response is the label of the ratio of the  *)
(* asking price to the point estimate the response carries.                *)
C8_LabelOfReportedEstimate ==
  pc = "done" /\ res.status = 200
  => res.payload.label = LabelOf(req.body.amount, res.payload.marketValue)

(* C8: the label of a freshly computed response is the label of the ratio  *)
(* of the asking price to the estimate before it is rounded for the        *)
(* response: the median of the comps used, or 0.93 times the asking price. *)
C8_LabelOfUnroundedEstimate ==
  Fresh
  => LET used == UsedNow
     IN res.payload.label =
          IF Len(used) >= 4
          THEN LabelOf(4 * req.body.amount, median4(Amounts(used)))
          ELSE LabelOf(100 * req.body.amount, 93 * req.body.amount)

(* a comp-based great deal *)
C8_Witness ==
  /\ Fresh /\ Len(UsedNow) >= 4
  /\ res.payload.label = "great_deal"
  /\ 100 * req.body.amount <= 88 * res.payload.marketValue

(* C9: the coverage tier of a comp-based estimate is decided by the comps  *)
(* used for statistics alone: 10 or more give strong when their average    *)
(* score is at least 78, standard when it is at least 68, else limited;    *)
(* 7 to 9 give standard; fewer give limited.                               *)
C9_CoverageFromUsedComps ==
  Fresh
  => LET used == UsedNow
         n == Len(used)
         sum == SumSeq([i \in 1..n |-> used[i].qualityScore])
     IN n >= 4 => res.payload.confidence =
          IF n >= 10 THEN (IF sum >= 78 * n THEN "strong"
                           ELSE IF sum >= 68 * n THEN "standard"
                           ELSE "limited")
          ELSE IF n >= 7 THEN "standard"
          ELSE "limited"

(* ten comps used whose average score lies between 68 and 78 *)
C9_Witness ==
  /\ Fresh /\ Len(UsedNow) = 10
  /\ res.payload.confidence = "standard"

(* the verdict and the estimate of a payload *)
Verdict(p) == <<p.label, p.score, p.marketValue, p.low, p.high, p.confidence>>

(* C10 as stated: two answered requests for the same listing under the     *)
(* same behaviour of the collaborators carry the same verdict and          *)
(* estimate, whatever was handled before them.                             *)
C10_SameInputsSameOutput ==
  /\ seen.present /\ pc = "done" /\ res.status = 200
  /\ req.body = seen.body /\ req.faults = seen.faults
  => Verdict(res.payload) = Verdict(seen.payload)

(* C10: two freshly computed responses for the same listing whose          *)
(* collaborator calls were the same and returned the same carry the same   *)
(* verdict and estimate; the response cache and the cached token are what  *)
(* one invocation leaves to the next.                                      *)
C10_FreshSameCallsSameOutput ==
  /\ seen.present /\ ~seen.cached /\ Fresh
  /\ req.body = seen.body /\ calls = seen.calls
  => Verdict(res.payload) = Verdict(seen.payload)

(* the same calls although the token request of one of the two would have  *)
(* failed: the other request used the cached token                         *)
C10_Witness ==
  /\ seen.present /\ ~seen.cached /\ Fresh
  /\ req.body = seen.body /\ calls = seen.calls
  /\ req.faults # seen.faults
  /\ nreq = 3

(* C11: the query string passed to the sold search is never the string     *)
(* passed to the active search of the same analysis, and none of its terms *)
(* is quoted or carries the exclusion sign.                                *)
C11_SoldQueryPlainAndOwn ==
  \A i \in DOMAIN calls :
    calls[i].api = "sold" =>
      /\ \A k \in DOMAIN calls[i].query :
           ~calls[i].query[k].quoted /\ ~calls[i].query[k].excluded
      /\ \A j \in DOMAIN calls :
           calls[j].api \in {"active", "token"} => calls[i].query # calls[j].query

(* C12: every freshly computed successful response carries, in its         *)
(* diagnostics, two synthesized query strings (the active and the sold     *)
(* variant), the raw, kept and used comp counts of the sold and of the     *)
(* active source, and the lookback window used.                            *)
C12_DiagnosticsComplete ==
  Fresh =>
    LET keys == res.payload.metaKeys
        reports == {metaReports(k) : k \in keys}
    IN /\ \E a, s \in keys :
            a # s /\ metaReports(a) = <<"query">> /\ metaReports(s) = <<"query">>
       /\ \A src \in {"sold", "active"}, stage \in {"raw", "kept", "used"} :
            <<src, stage>> \in reports
       /\ <<"window">> \in reports

(* C13: once the deadline or cancellation signal has fired while a search  *)
(* call was outstanding, that call is aborted (it delivers no comps) and   *)
(* no further call is made; if no comps had arrived before the signal the  *)
(* response carries the heuristic estimate.                                *)
C13_DeadlineAbortsCalls ==
  req.deadlineAt >= 0 =>
    /\ Len(calls) <= req.deadlineAt + 1
    /\ \A i \in DOMAIN calls : i > req.deadlineAt => calls[i].n < 0
    /\ pc = "done" /\ (\A i \in 1..req.deadlineAt : calls[i].n <= 0)
         => res.status = 200 /\ res.payload.method = "limited-sold-signals"

(* the scorer has been applied to the drawn body and raw list *)
Ranked == fn.name = "rankAndFilterComps" /\ fn.applied

(* a ranked comp as the raw list holds it *)
Unscored(c) ==
  [url |-> c.url, title |-> c.title, amount |-> c.amount, currency |-> c.currency,
   cond |-> c.cond]

(* C14: the ranked list never holds two comps with the same url, even     *)
(* when the raw list holds the same listing more than once                *)
C14_RankedDeduplicated ==
  Ranked =>
    \A i, j \in DOMAIN fn.out.ranked :
      i # j => fn.out.ranked[i].url # fn.out.ranked[j].url


(* the negative terms of the drawn target have been built *)
NegativesBuilt == fn.name = "buildNegativeTerms" /\ fn.applied

(* the brand names hermes and the title names birkin or kelly *)
HermesBirkinKelly(body) ==
  /\ "hermes" \in Range(body.brand)
  /\ Range(body.title) \cap {"birkin", "kelly"} # {}

(* C15: the negative terms hold both birkin and kelly for every target    *)
(* that is no Hermes Birkin or Kelly, and neither of them for every       *)
(* Hermes target whose title names birkin or kelly                        *)
C15_BirkinKellyNegatives ==
  NegativesBuilt =>
    IF HermesBirkinKelly(fn.body)
    THEN Range(fn.out) \cap {<<"birkin">>, <<"kelly">>} = {}
    ELSE {<<"birkin">>, <<"kelly">>} \subseteq Range(fn.out)

(* a Hermes Birkin target with a noisy word free: negatives without birkin *)
C15_Witness ==
  /\ NegativesBuilt
  /\ fn.body.brand = <<"hermes">>
  /\ fn.body.title = <<"hermes", "birkin", "30">>
  /\ <<"replica">> \in Range(fn.out)
  /\ <<"birkin">> \notin Range(fn.out)


(* the title holds a replica signal or an accessory phrase *)
HasJunkPhrase(title) ==
  \E p \in Range(REPLICA_SIGNALS) \cup Range(JUNK_PHRASES) : Includes(title, p)

(* C16: a comp whose title holds a replica or accessory phrase is neither *)
(* in the ranked list nor among the comps used for statistics, whatever   *)
(* its price and the score it would reach                                 *)
C16_JunkNeverRanked ==
  Ranked =>
    /\ \A i \in DOMAIN fn.out.ranked : ~HasJunkPhrase(fn.out.ranked[i].title)
    /\ \A i \in DOMAIN fn.out.usedForStats :
         ~HasJunkPhrase(fn.out.usedForStats[i].title)

(* "lv neverfull strap only" at the asking price, scoring above the       *)
(* threshold, handed in first with other comps that are ranked            *)
C16_Witness ==
  /\ Ranked
  /\ fn.compsIn # <<>> /\ fn.compsIn[1].title = tStrap
  /\ fn.compsIn[1].amount = fn.body.amount
  /\ rawScore(buildTargetSignals(fn.body), fn.compsIn[1]) >= 60
  /\ fn.out.ranked # <<>>


(* normalize has been applied to the drawn string, and to the result *)
Normalized == fn.name = "normalize" /\ fn.applied

(* C17: normalize is idempotent: normalize(normalize(x)) = normalize(x)   *)
C17_NormalizeIdempotent == Normalized => fn.twice = fn.once

(* an upper-case accented letter, punctuation, white space and a letter:  *)
(* the result differs from the input and is not empty                     *)
C17_Witness ==
  /\ Normalized
  /\ fn.input = <<"E-acute", "!", "tab", "A">>
  /\ fn.once = <<"e", " ", "a">>
  /\ fn.twice = fn.once


(* the comps of s that score at least n, in the order of s *)
ScoringAtLeast(s, n) == SelectSeq(s, LAMBDA c : c.qualityScore >= n)

(* the first n elements of s, or all of s when it has fewer *)
FirstN(s, n) == [i \in 1..(IF Len(s) < n THEN Len(s) ELSE n) |-> s[i]]

(* C18: the comps used for statistics are the first 10 at most, in ranked *)
(* order, of the comps scoring at least 60 when at least 4 comps score    *)
(* that much, and the first 10 at most of all ranked comps otherwise      *)
C18_UsedForStatsSelection ==
  Ranked =>
    LET top == ScoringAtLeast(fn.out.ranked, 60)
    IN fn.out.usedForStats =
         IF Len(top) >= 4 THEN FirstN(top, 10) ELSE FirstN(fn.out.ranked, 10)

(* more than 10 comps score at least 60 and a ranked comp scores less:    *)
(* the cap and the threshold both cut                                     *)
C18_Witness ==
  /\ Ranked
  /\ Len(ScoringAtLeast(fn.out.ranked, 60)) > 10
  /\ Len(ScoringAtLeast(fn.out.ranked, 60)) < Len(fn.out.ranked)
  /\ Len(fn.out.usedForStats) = 10

(* fewer than 4 comps score at least 60, one does, and lower ones are used *)
C18_WitnessFallback ==
  /\ Ranked
  /\ Len(ScoringAtLeast(fn.out.ranked, 60)) \in 1..3
  /\ Len(fn.out.usedForStats) > Len(ScoringAtLeast(fn.out.ranked, 60))

(* the raw comps, in raw order, that are ranked with score n *)
RawWithScore(n) ==
  SelectSeq(fn.compsIn,
            LAMBDA c : \E i \in DOMAIN fn.out.ranked :
                          /\ fn.out.ranked[i].qualityScore = n
                          /\ Unscored(fn.out.ranked[i]) = c)

(* the ranked comps with score n, in ranked order, as the raw list holds them *)
RankedWithScore(n) ==
  LET same == SelectSeq(fn.out.ranked, LAMBDA c : c.qualityScore = n)
  IN [i \in DOMAIN same |-> Unscored(same[i])]

(* C19: the ranked list is in non-increasing order of score, and comps of *)
(* equal score keep the relative order they have in the raw list          *)
C19_RankedOrderStable ==
  Ranked =>
    /\ \A i, j \in DOMAIN fn.out.ranked :
         i < j => fn.out.ranked[i].qualityScore >= fn.out.ranked[j].qualityScore
    /\ \A i \in DOMAIN fn.out.ranked :
         RankedWithScore(fn.out.ranked[i].qualityScore)
           = RawWithScore(fn.out.ranked[i].qualityScore)

(* a lower-scoring comp handed in first is ranked last, and two different *)
(* comps of equal score follow each other as in the raw list              *)
C19_Witness ==
  /\ Ranked
  /\ Len(fn.compsIn) = 3 /\ Len(fn.out.ranked) = 3
  /\ Unscored(fn.out.ranked[3]) = fn.compsIn[1]
  /\ Unscored(fn.out.ranked[1]) = fn.compsIn[2]
  /\ Unscored(fn.out.ranked[2]) = fn.compsIn[3]
  /\ fn.out.ranked[1].qualityScore = fn.out.ranked[2].qualityScore
  /\ fn.out.ranked[1].url # fn.out.ranked[2].url
  /\ fn.out.ranked[3].qualityScore < fn.out.ranked[2].qualityScore

(* C20: every ranked comp has an integer score from 45 to 100, and a comp *)
(* whose clamped score is below 45 is not ranked                          *)
C20_ScoreRange ==
  Ranked =>
    /\ \A i \in DOMAIN fn.out.ranked : fn.out.ranked[i].qualityScore \in 45..100
    /\ \A k \in DOMAIN fn.compsIn :
         Max2(0, Min2(100, rawScore(buildTargetSignals(fn.body), fn.compsIn[k]))) < 45
           => \A i \in DOMAIN fn.out.ranked :
                Unscored(fn.out.ranked[i]) # fn.compsIn[k]

(* a comp whose bonuses exceed 100 is ranked with 100, and a comp that    *)
(* passes the title and price checks with a score below 45 is dropped     *)
C20_Witness ==
  /\ Ranked
  /\ \E k \in DOMAIN fn.compsIn :
       /\ rawScore(buildTargetSignals(fn.body), fn.compsIn[k]) > 100
       /\ \E i \in DOMAIN fn.out.ranked :
            /\ Unscored(fn.out.ranked[i]) = fn.compsIn[k]
            /\ fn.out.ranked[i].qualityScore = 100
  /\ \E k \in DOMAIN fn.compsIn :
       /\ fn.compsIn[k].url # 0
       /\ ~HasJunkPhrase(fn.compsIn[k].title)
       /\ ~OutsideSanityBand(fn.body.amount, fn.compsIn[k].amount)
       /\ rawScore(buildTargetSignals(fn.body), fn.compsIn[k]) \in 1..44
       /\ \A i \in DOMAIN fn.out.ranked : Unscored(fn.out.ranked[i]) # fn.compsIn[k]


(* a raw comp that has url and title, no junk phrase, and a clamped score *)
(* of 45 or more for the target                                           *)
PassesButBand(c) ==
  /\ c.url # 0 /\ c.title # <<>>
  /\ ~HasJunkPhrase(c.title)
  /\ Max2(0, Min2(100, rawScore(buildTargetSignals(fn.body), c))) >= 45

C21_WitnessBelow300 ==
  /\ Ranked
  /\ fn.body.amount = 200
  /\ \E i \in DOMAIN fn.out.ranked : fn.out.ranked[i].amount = 800


(* median and the two percentiles of the drawn list have been computed *)
StatsComputed == fn.name = "median" /\ fn.applied

(* the k-th smallest element of nums, for k in 1..Len(nums) *)
OrderStat(nums, k) ==
  CHOOSE v \in Range(nums) :
    /\ Cardinality({i \in DOMAIN nums : nums[i] < v}) < k
    /\ Cardinality({i \in DOMAIN nums : nums[i] <= v}) >= k

(* 4 times the linear interpolation at position (n - 1) * q / 4, counted  *)
(* from 0, between the order statistics below and above it                *)
Interpolated4(nums, q) ==
  LET pos4 == (Len(nums) - 1) * q
      below == pos4 \div 4
      above == IF pos4 % 4 = 0 THEN below ELSE below + 1
  IN 4 * OrderStat(nums, below + 1)
       + (OrderStat(nums, above + 1) - OrderStat(nums, below + 1)) * (pos4 % 4)

(* C24: median is the middle order statistic of an odd number of prices   *)
(* and the average of the two middle ones of an even number; percentile   *)
(* interpolates linearly between the order statistics at floor and ceil   *)
(* of (n - 1) * p; [10, 20, 30, 40] gives 25, 17.5 and 32.5               *)
C24_MedianPercentile ==
  StatsComputed =>
    LET n == Len(fn.nums)
    IN /\ fn.median4 = IF n % 2 = 1 THEN 4 * OrderStat(fn.nums, (n + 1) \div 2)
                       ELSE 2 * (OrderStat(fn.nums, n \div 2)
                                   + OrderStat(fn.nums, n \div 2 + 1))
       /\ fn.p25x4 = Interpolated4(fn.nums, 1)
       /\ fn.p75x4 = Interpolated4(fn.nums, 3)
       /\ fn.nums = <<10, 20, 30, 40>> =>
            fn.median4 = 100 /\ fn.p25x4 = 70 /\ fn.p75x4 = 130

(* the four prices handed in out of order: 25, 17.5 and 32.5 *)
C24_Witness ==
  /\ StatsComputed
  /\ fn.nums = <<30, 10, 40, 20>>
  /\ fn.median4 = 100 /\ fn.p25x4 = 70 /\ fn.p75x4 = 130


(* C22: when the title of the target holds the word style, the word is   *)
(* not among the negative terms and a comp whose title holds it is not    *)
(* rejected for it: a comp with the title and the price of the target is  *)
(* ranked                                                                 *)
C22_OwnStyleWordNotPenalized ==
  (Ranked /\ "style" \in Range(fn.body.title)) =>
    /\ <<"style">> \notin Range(buildNegativeTerms(fn.body))
    /\ \A k \in DOMAIN fn.compsIn :
         ( /\ fn.compsIn[k].url # 0
           /\ fn.compsIn[k].title = fn.body.title
           /\ fn.compsIn[k].amount = fn.body.amount )
         => \E i \in DOMAIN fn.out.ranked : Unscored(fn.out.ranked[i]) = fn.compsIn[k]


(* both searches have cut the drawn query *)
QueriesSent == fn.name = "query" /\ fn.applied

(* C23: however long the query built from title and brand, the active     *)
(* search sends at most 200 characters and the sold search at most 250    *)
C23_QueryLengthBounded ==
  QueriesSent => Len(fn.q) <= 200 /\ Len(fn.keywords) <= 250

(* a query of 260 characters between spaces: 200 and 250 are sent *)
C23_Witness ==
  /\ QueriesSent
  /\ Len(fn.query) = 262
  /\ Len(fn.q) = 200 /\ Len(fn.keywords) = 250
  /\ fn.q[1] = "x"


(* C25: in every successful response the point value of the estimate lies *)
(* between the low and the high end of its range, for every asking price  *)
(* the validation accepts                                                 *)
C25_EstimateWithinRange ==
  Fresh => res.payload.low <= res.payload.marketValue
             /\ res.payload.marketValue <= res.payload.high


(* the heuristic branch has labelled and scored the drawn asking price *)
HeuristicApplied == fn.name = "heuristic" /\ fn.applied

(* the asking price is above zero *)
PositiveAsking == fn.asking.kind # "whole" \/ fn.asking.n > 0

(* C26 as stated: in the heuristic branch every positive asking price is  *)
(* labelled overpriced with score 54                                      *)
C26_HeuristicAlwaysOverpriced ==
  (HeuristicApplied /\ PositiveAsking) =>
    fn.label = "overpriced" /\ fn.score = 54

(* C26: in the heuristic branch every positive finite asking price that   *)
(* is no subnormal number is labelled overpriced with score 54; Infinity  *)
(* is labelled fair_price with score 54, and the few smallest subnormal   *)
(* prices, whose 0.93-fold rounds back to the price, are labelled         *)
(* fair_price with score 62                                               *)
C26_HeuristicOverpricedForOrdinaryPrices ==
  HeuristicApplied =>
    /\ (fn.asking.kind = "whole" /\ fn.asking.n > 0)
         => fn.label = "overpriced" /\ fn.score = 54
    /\ fn.asking.kind = "infinite" => fn.label = "fair_price" /\ fn.score = 54
    /\ (fn.asking.kind = "subnormal" /\ fn.asking.n <= 7)
         => fn.label = "fair_price" /\ fn.score = 62

(* asking 80: overpriced, 54 *)
C26_Witness ==
  /\ HeuristicApplied
  /\ fn.asking = [kind |-> "whole", n |-> 80]
  /\ fn.label = "overpriced" /\ fn.score = 54


(* C27: after the loop over the sold windows the recorded window is null  *)
(* exactly when the chosen sold list is empty; a chosen list that is not  *)
(* empty is the list the call for the recorded window returned; and the   *)
(* best-attempt count, as kept and as reported, is the length of the      *)
(* chosen list                                                            *)
C27_WindowNullIffNoComps ==
  (pc = "build" \/ Fresh) =>
    /\ soldWindowDays = 0 <=> soldAll = <<>>
    /\ soldAll # <<>> =>
         /\ soldAll = SoldList(soldWindowDays, market[soldWindowDays])
         /\ \E i \in DOMAIN SoldCalls :
              SoldCalls[i].days = soldWindowDays /\ SoldCalls[i].n = Len(soldAll)
    /\ bestSoldCount = Len(soldAll)
    /\ Fresh => res.payload.soldCompsCountBestAttempt = Len(soldAll)

(* the first window returned the most, a later one fewer and the last     *)
(* none: the first list and its window are kept                           *)
C27_Witness ==
  /\ Fresh
  /\ Len(SoldCalls) = 3
  /\ soldWindowDays = 90
  /\ SoldCalls[1].n = Len(soldAll)
  /\ SoldCalls[2].n \in 1..(Len(soldAll) - 1)
  /\ SoldCalls[3].n = 0
  /\ res.payload.soldCompsCountBestAttempt = Len(soldAll)

(* every sold call failed or returned nothing: no list and no window *)
C27_WitnessNoComps ==
  /\ Fresh
  /\ Len(SoldCalls) = 3
  /\ soldAll = <<>> /\ soldWindowDays = 0
  /\ \E i \in DOMAIN SoldCalls : SoldCalls[i].n = 0


(* the handler is at the cache read of a request without nocache, and the *)
(* cache holds an entry for the key of the request that has not expired   *)
CacheHolds ==
  /\ pc = "cache" /\ ~req.nocache
  /\ cache[cacheKeyOf(req)].present
  /\ cache[cacheKeyOf(req)].expires_at > now

(* the step answers with the cached payload marked cached, after no       *)
(* search call, no cache write and no analysis row                        *)
ServedFromCache ==
  /\ pc' = "done"
  /\ res' = [ status |-> 200, error |-> "", cached |-> TRUE,
              payload |-> cache[cacheKeyOf(req)].value_json ]
  /\ calls' = <<>>
  /\ cache' = cache /\ analyses' = analyses
  /\ effects' \cap {"cache.upsert", "analyses.insert"} = {}

(* C28 as stated: whenever the cache holds an unexpired entry for the key *)
(* of a request without nocache, the request is answered from the cache   *)
C28_ValidEntryServed == [][CacheHolds => ServedFromCache]_vars

(* C28: when the cache holds an unexpired entry for the key of a request  *)
(* without nocache and the read of the cache succeeds, the request is     *)
(* answered with the cached payload marked cached, after no search call,  *)
(* no cache write and no analysis row; with nocache the cache is not read *)
(* and the fresh payload is upserted, and unless the store fails the      *)
(* entry holds it with an expiry six hours ahead                          *)
C28_CacheHitAndNoCache ==
  [][ /\ (CacheHolds /\ "cache.select" \notin req.faults.store) => ServedFromCache
      /\ (pc = "cache" /\ req.nocache) =>
           pc' = "fetch" /\ "cache.select" \notin effects' /\ calls' = <<>>
      /\ (pc = "build" /\ req.nocache) =>
           /\ res'.status = 200 /\ ~res'.cached
           /\ "cache.select" \notin effects' /\ "cache.upsert" \in effects'
           /\ "cache.upsert" \notin req.faults.store =>
                cache'[cacheKeyOf(req)] =
                  [ present |-> TRUE, value_json |-> res'.payload,
                    expires_at |-> now + 21600000 ]
    ]_vars

(* the second request for a listing is answered from the entry the first  *)
(* one wrote                                                              *)
C28_Witness ==
  /\ pc = "done" /\ nreq = 2
  /\ res.status = 200 /\ res.cached
  /\ res.payload = cache[cacheKeyOf(req)].value_json
  /\ calls = <<>>
  /\ Len(analyses) = 1
  /\ effects \cap {"cache.upsert", "analyses.insert"} = {}

(* a nocache request while the cache holds an unexpired entry: searches   *)
(* are called and the entry is written again                              *)
C28_WitnessNoCache ==
  /\ pc = "done" /\ nreq = 2 /\ req.nocache
  /\ res.status = 200 /\ ~res.cached
  /\ Len(analyses) = 2
  /\ calls # <<>>
  /\ "cache.select" \notin effects /\ "cache.upsert" \in effects


(* more than 30 seconds remain on the cached token *)
TokenStillGood == tokenCache.present /\ tokenCache.expiresAtMs - now > 30000

(* the token request of the step threw *)
TokenRequestFailed == calls'[Len(calls')].api = "token"

(* C29: getEbayAppToken returns the cached token, with no token request,  *)
(* only while more than 30 seconds remain on it; otherwise it requests a  *)
(* token and replaces the cache with it; a token request that fails       *)
(* throws and leaves the cached token as it was                           *)
C29_TokenCacheMargin ==
  [][ pc = "fetch" =>
        /\ TokenStillGood => tokenCache' = tokenCache /\ ~TokenRequestFailed
        /\ (~TokenStillGood /\ ~TokenRequestFailed) =>
             /\ tokenCache'.present
             /\ \E lifetime \in TokenLifetimes :
                  tokenCache'.expiresAtMs = now + lifetime * 1000
             /\ tokenCache' # tokenCache
        /\ TokenRequestFailed => tokenCache' = tokenCache
    ]_vars

(* at 30 seconds, with exactly 30 seconds left on the token granted at 0, *)
(* a token is requested; the request fails and the token stays            *)
C29_Witness ==
  /\ nreq = 2 /\ now = 30000
  /\ pc = "sold"
  /\ calls # <<>> /\ calls[1].api = "token"
  /\ tokenCache.present /\ tokenCache.expiresAtMs = 60000

(* a token requested at 30 seconds for 60 seconds is in the cache *)
C29_WitnessReplaced ==
  /\ nreq = 2 /\ now = 30000
  /\ pc = "sold"
  /\ tokenCache.present /\ tokenCache.expiresAtMs = 90000

RECURSIVE IsSubsequence(_, _)
(* a is b with some elements left out *)
IsSubsequence(a, b) ==
  IF a = <<>> THEN TRUE
  ELSE IF b = <<>> THEN FALSE
  ELSE IF Head(a) = Head(b) THEN IsSubsequence(Tail(a), Tail(b))
  ELSE IsSubsequence(a, Tail(b))

(* C30: the scorer uses at most 10 and at most as many comps as it keeps, *)
(* keeps at most as many as it is given, the comps used for statistics    *)
(* are a subsequence of the ranked list, and the counts it reports are    *)
(* the lengths of the raw list, the ranked list and the used list         *)
C30_CountsAndSubset ==
  Ranked =>
    /\ fn.out.counts.used <= 10
    /\ fn.out.counts.used <= fn.out.counts.kept
    /\ fn.out.counts.kept <= fn.out.counts.input
    /\ IsSubsequence(fn.out.usedForStats, fn.out.ranked)
    /\ fn.out.counts.input = Len(fn.compsIn)
    /\ fn.out.counts.kept = Len(fn.out.ranked)
    /\ fn.out.counts.used = Len(fn.out.usedForStats)

(* 14 comps given, 12 kept, 10 used, the used ones not a prefix of the    *)
(* ranked list as such: a lower comp is left out                          *)
C30_Witness ==
  /\ Ranked
  /\ fn.out.counts.input > fn.out.counts.kept
  /\ fn.out.counts.kept > fn.out.counts.used
  /\ fn.out.counts.used = 10
  /\ fn.out.ranked[Len(fn.out.ranked)].qualityScore < 60


====
